---- MODULE Spec2Model ----
(***************************************************************************)
(* Model of the aggregation, session-detection and update-queue logic of   *)
(* ccusage-overlay:                                                        *)
(*   - DataService (src/main/services/data-service.ts): the per-file       *)
(*     cache, the debounced update queue and its batches;                  *)
(*   - calculateDailySummary / calculateHourlySummary / aggregateUsageData *)
(*     (src/shared/data-loader.ts);                                        *)
(*   - identifySessions (src/renderer/src/views/ExpandedView.tsx).         *)
(* Costs are integers (tenths of a currency unit), instants are integer    *)
(* minutes since the UTC midnight that starts 2023-12-30.                  *)
(***************************************************************************)
EXTENDS Integers, Sequences, FiniteSets, TLC

VARIABLES
    \* ---- DataService ----
    cache,          \* Map<string, UsageEntry[]>: path -> entries, NoEntry when absent
    updateQueue,    \* FileChangeEvent[]
    isProcessing,   \* the processing flag
    updateTimer,    \* "null", "pending" (armed, not yet fired) or "fired"
    elapsed,        \* ms since the pending timer was armed (capped at DebounceMs)
    batches,        \* processUpdateQueue invocations suspended at `await parseJsonlFile`
    fs,             \* the log directory: path -> file content, Missing when absent
    watching,       \* TRUE once startWatching() has installed the watcher
    loads,          \* the loadAllData() invocations in flight
    refreshes,      \* number of refreshData() calls made
    lastBroadcast,  \* the cache contents last sent to the windows
    notified,       \* ids of the notifications passed to queueFileUpdate so far
    taken,          \* ids of the notifications copied out of updateQueue by a batch
    applied,        \* ids of the notifications whose cache update has been made
    broadcasted,    \* ids of the notifications applied by a batch that then broadcast
    lastCall,       \* what the last processUpdateQueue call did
    \* ---- pure functions: inputs and results ----
    entries,        \* the UsageEntry[] handed to the aggregation functions
    now,            \* the reference instant (new Date())
    tz,             \* minutes the local zone is ahead of UTC
    hoursLimit,     \* calculateHourlySummary's hoursLimit
    skipTimeFilter, \* calculateHourlySummary's skipTimeFilter
    daily,          \* result of calculateDailySummary
    hourly,         \* result of calculateHourlySummary
    bundle,         \* result of aggregateUsageData
    secondBundle,   \* result of a second aggregateUsageData call on the same list
    projects,       \* result of calculateProjectSummary
    filePath,       \* parseJsonlFile's filePath, as its path segments
    fileLines,      \* the lines of the file parseJsonlFile reads
    fileEntries,    \* result of parseJsonlFile
    currentSessionCost, \* result of calculateCurrentSessionCost
    hourlyData,     \* the series handed to identifySessions
    sessions,       \* result of identifySessions
    pc              \* which function has been applied last

svcVars  == <<cache, updateQueue, isProcessing, updateTimer, elapsed, batches, fs,
              watching, loads, refreshes, lastBroadcast, notified, taken, applied,
              broadcasted, lastCall>>
pureVars == <<entries, now, tz, hoursLimit, skipTimeFilter, daily, hourly, bundle,
              hourlyData, sessions, secondBundle, projects,
              filePath, fileLines, fileEntries,
              currentSessionCost, pc>>
vars     == <<cache, updateQueue, isProcessing, updateTimer, elapsed, batches, fs,
              watching, loads, refreshes, lastBroadcast, notified, taken, applied,
              broadcasted, lastCall,
              entries, now, tz, hoursLimit, skipTimeFilter, daily, hourly, bundle,
              hourlyData, sessions, secondBundle, projects,
              filePath, fileLines, fileEntries,
              currentSessionCost, pc>>

(***************************************************************************)
(* Generic helpers                                                         *)
(***************************************************************************)
Min(a, b) == IF a < b THEN a ELSE b

RECURSIVE SumSeq(_, _)
\* s[1] + ... + s[n]
SumSeq(s, n) == IF n = 0 THEN 0 ELSE s[n] + SumSeq(s, n - 1)

\* all sequences over S of length 0..n
SeqsUpTo(S, n) == UNION {[1..k -> S] : k \in 0..n}

(***************************************************************************)
(* Bounds                                                                  *)
(***************************************************************************)
MaxNotifications == 2   \* file-system changes the environment makes
MaxRefresh == 1         \* refreshData() calls
TicksPerDebounce == 2   \* clock steps that make up the debounce delay

(***************************************************************************)
(* JSONL files and parseJsonlFile                                          *)
(***************************************************************************)
Missing == [exists |-> FALSE, lines |-> <<>>]   \* no such file: readFile rejects
File(lines) == [exists |-> TRUE, lines |-> lines]
NoEntry == [has |-> FALSE, entries |-> <<>>]    \* the cache has no key for the path
Entry(es) == [has |-> TRUE, entries |-> es]

Paths == {"projects/a/s1.jsonl", "projects/b/s2.jsonl"}

\* one line of a log file: whether it is blank, whether JSON.parse accepts it, and
\* the fields of the parsed record ("" for a timestamp, project or session that is
\* missing or empty; costType is `typeof entry.costUSD`)
Line(json, timestamp, usage, costType, costUSD) ==
    [blank |-> FALSE, json |-> json, timestamp |-> timestamp, usage |-> usage,
     costType |-> costType, costUSD |-> costUSD, project |-> "", session |-> ""]
MalformedLine == Line(FALSE, "", FALSE, "undefined", 0)
GoodLine == Line(TRUE, "t", TRUE, "number", 5)

\* the contents a log file takes in the DataService specification
FileContents == {File(<<>>), File(<<MalformedLine, GoodLine>>)}

\* data-loader.ts:472-478, the required-field check of one parsed line
ValidLine_AnyCost(l) == l.json /\ l.timestamp # "" /\ l.usage
ValidLine(l) == l.json /\ l.timestamp # "" /\ l.usage /\ l.costType = "number"

\* data-loader.ts:465-491: the entries of the valid lines, in file order
ParseLines(path, lines) ==
    LET ok == SelectSeq(lines, LAMBDA l : ~l.blank /\ ValidLine(l))
    IN [i \in 1..Len(ok) |->
           [timestamp |-> ok[i].timestamp, costUSD |-> ok[i].costUSD, filePath |-> path]]

(***************************************************************************)
(* DataService                                                             *)
(***************************************************************************)
DebounceMs == 500
TickMs == DebounceMs \div TicksPerDebounce

\* data-service.ts:68-71 / 145-149: store a parse result (set or delete)
StoreParsed_KeepStale(c, path, parsed, deleteEmpty) ==
    IF Len(parsed) > 0 THEN [c EXCEPT ![path] = Entry(parsed)] ELSE c
StoreParsed(c, path, parsed, deleteEmpty) ==
    IF Len(parsed) > 0 THEN [c EXCEPT ![path] = Entry(parsed)]
    ELSE IF deleteEmpty THEN [c EXCEPT ![path] = NoEntry]
    ELSE c

\* data-service.ts:150-154: the catch around the parse of one update
OnReadError_Keep(c, path) == c
OnReadError(c, path) == [c EXCEPT ![path] = NoEntry]

\* data-service.ts:130, the guard of processUpdateQueue
CanStartBatch_NoFlag == updateQueue # <<>>
CanStartBatch == ~isProcessing /\ updateQueue # <<>>

RECURSIVE RunSync(_, _, _)
\* data-service.ts:139-156: the loop runs synchronously through the unlink
\* updates and suspends at the first update that needs `await parseJsonlFile`
RunSync(c, ups, done) ==
    IF ups = <<>> THEN [cache |-> c, rest |-> <<>>, done |-> done]
    ELSE IF Head(ups).type = "unlink"
         THEN RunSync([c EXCEPT ![Head(ups).path] = NoEntry], Tail(ups),
                      done \cup {Head(ups).timestamp})
         ELSE [cache |-> c, rest |-> ups, done |-> done]

\* data-service.ts:158-162: broadcast (which may throw), then `finally`
FinishBatch(c, ids, throws) ==
    /\ isProcessing' = FALSE
    /\ broadcasted' = IF throws THEN broadcasted ELSE broadcasted \cup ids
    /\ lastBroadcast' = IF throws THEN [lastBroadcast EXCEPT !.threw = TRUE]
                        ELSE [sent |-> TRUE, data |-> c, threw |-> FALSE]

\* data-service.ts:109-127
QueueFileUpdate_NoRestart(path, type) ==
    /\ updateQueue' = Append(updateQueue,
           [type |-> type, path |-> path, timestamp |-> Cardinality(notified) + 1])
    /\ notified' = notified \cup {Cardinality(notified) + 1}
    /\ updateTimer' = "pending"
    /\ elapsed' = elapsed
QueueFileUpdate(path, type) ==
    /\ updateQueue' = Append(updateQueue,
           [type |-> type, path |-> path, timestamp |-> Cardinality(notified) + 1])
    /\ notified' = notified \cup {Cardinality(notified) + 1}
    /\ updateTimer' = "pending"
    /\ elapsed' = 0

\* the file system changes; the watcher (data-service.ts:93-102), once
\* installed, reports it to queueFileUpdate
FileChange(path, content) ==
    /\ Cardinality(notified) < MaxNotifications
    /\ content # fs[path]
    /\ fs' = [fs EXCEPT ![path] = content]
    /\ IF watching
       THEN QueueFileUpdate(path, IF content = Missing THEN "unlink"
                                  ELSE IF fs[path] = Missing THEN "add" ELSE "change")
       ELSE UNCHANGED <<updateQueue, notified, updateTimer, elapsed>>
    /\ UNCHANGED <<cache, isProcessing, batches, watching, loads, refreshes,
                   lastBroadcast, taken, applied, broadcasted, lastCall>>

\* time passes while the debounce timer is armed
Tick ==
    /\ updateTimer = "pending"
    /\ elapsed < DebounceMs
    /\ elapsed' = Min(elapsed + TickMs, DebounceMs)
    /\ UNCHANGED <<cache, updateQueue, isProcessing, updateTimer, batches, fs, watching,
                   loads, refreshes, lastBroadcast, notified, taken, applied, broadcasted, lastCall>>

\* data-service.ts:124-126 and 129-163: the timer fires and calls
\* processUpdateQueue, which runs up to its first await (or to its end)
ProcessUpdateQueue(throws) ==
    /\ updateTimer = "pending"
    /\ elapsed >= DebounceMs
    /\ updateTimer' = "fired"
    /\ IF ~CanStartBatch
       THEN /\ lastCall' = [n |-> lastCall.n + 1, started |-> FALSE]
            /\ throws = FALSE
            /\ UNCHANGED <<cache, updateQueue, isProcessing, batches, taken, applied,
                           broadcasted, lastBroadcast>>
       ELSE LET r == RunSync(cache, updateQueue, {})
                ids == {updateQueue[i].timestamp : i \in 1..Len(updateQueue)}
            IN /\ lastCall' = [n |-> lastCall.n + 1, started |-> TRUE]
               /\ updateQueue' = <<>>
               /\ taken' = taken \cup ids
               /\ cache' = r.cache
               /\ applied' = applied \cup r.done
               /\ IF r.rest = <<>>
                  THEN /\ FinishBatch(r.cache, ids, throws)
                       /\ UNCHANGED batches
                  ELSE /\ throws = FALSE
                       /\ isProcessing' = TRUE
                       /\ batches' = Append(batches, [updates |-> r.rest, ids |-> ids])
                       /\ UNCHANGED <<broadcasted, lastBroadcast>>
    /\ UNCHANGED <<elapsed, fs, watching, loads, refreshes, notified>>

RemoveAt(s, i) == [j \in 1..(Len(s) - 1) |-> IF j < i THEN s[j] ELSE s[j + 1]]

\* data-service.ts:143-162: the awaited parseJsonlFile of batch i settles (the file
\* is read as it is now, or the read fails); the loop resumes up to its next
\* await, or to the broadcast and the `finally`
ParseDone(i, readFails, throws) ==
    /\ i \in 1..Len(batches)
    /\ LET b == batches[i]
           u == Head(b.updates)
           failed == readFails \/ fs[u.path] = Missing
           c1 == IF failed THEN OnReadError(cache, u.path)
                 ELSE StoreParsed(cache, u.path, ParseLines(u.path, fs[u.path].lines), TRUE)
           r == RunSync(c1, Tail(b.updates), {u.timestamp})
       IN /\ cache' = r.cache
          /\ applied' = applied \cup r.done
          /\ IF r.rest = <<>>
             THEN /\ FinishBatch(r.cache, b.ids, throws)
                  /\ batches' = RemoveAt(batches, i)
             ELSE /\ throws = FALSE
                  /\ batches' = [batches EXCEPT ![i].updates = r.rest]
                  /\ UNCHANGED <<isProcessing, broadcasted, lastBroadcast>>
    /\ UNCHANGED <<updateQueue, updateTimer, elapsed, fs, watching, loads, refreshes, notified,
                   taken, lastCall>>

\* data-service.ts:35-38 resolved: continue loadAllData with the globbed files
\* (all of them fit in one BATCH_SIZE group); with no file it returns at once
StartLoad(caller) == [caller |-> caller, phase |-> "glob", pending |-> {}]

\* what runs when loadAllData() has returned: initialize() installs the watcher
\* (data-service.ts:29), refreshData() broadcasts (data-service.ts:196)
AfterLoad(caller, c) ==
    /\ watching' = (watching \/ caller = "initialize")
    /\ lastBroadcast' = IF caller = "refresh"
                        THEN [sent |-> TRUE, data |-> c, threw |-> FALSE]
                        ELSE lastBroadcast

\* data-service.ts:24-26: initialize() starts the bulk load
Initialize ==
    /\ ~watching
    /\ \A i \in 1..Len(loads) : loads[i].caller # "initialize"
    /\ loads' = Append(loads, StartLoad("initialize"))
    /\ UNCHANGED <<cache, updateQueue, isProcessing, updateTimer, elapsed, batches, fs,
                   watching, refreshes, lastBroadcast, notified, taken, applied,
                   broadcasted, lastCall>>

\* data-service.ts:188-193: refreshData() clears the cache and starts a bulk load;
\* its IPC handler is installed once initialize() has returned (index.ts:108-111)
RefreshData ==
    /\ watching
    /\ refreshes < MaxRefresh
    /\ refreshes' = refreshes + 1
    /\ cache' = [p \in Paths |-> NoEntry]
    /\ loads' = Append(loads, StartLoad("refresh"))
    /\ UNCHANGED <<updateQueue, isProcessing, updateTimer, elapsed, batches, fs,
                   watching, lastBroadcast, notified, taken, applied, broadcasted,
                   lastCall>>

\* data-service.ts:35-65: the glob settles with the files that exist now and
\* their reads are started together
GlobDone(i) ==
    /\ i \in 1..Len(loads)
    /\ loads[i].phase = "glob"
    /\ LET files == {p \in Paths : fs[p] # Missing}
       IN IF files = {}
          THEN /\ loads' = RemoveAt(loads, i)
               /\ AfterLoad(loads[i].caller, cache)
          ELSE /\ loads' = [loads EXCEPT ![i] = [@ EXCEPT !.phase = "parse",
                                                         !.pending = files]]
               /\ UNCHANGED <<watching, lastBroadcast>>
    /\ UNCHANGED <<cache, updateQueue, isProcessing, updateTimer, elapsed, batches, fs,
                   refreshes, notified, taken, applied, broadcasted, lastCall>>

\* data-service.ts:65-76: one file's parseJsonlFile settles; a non-empty result is
\* stored, an empty one or a failed read changes nothing; after the last file
\* loadAllData returns to its caller
LoadParseDone(i, file, readFails) ==
    /\ i \in 1..Len(loads)
    /\ loads[i].phase = "parse"
    /\ file \in loads[i].pending
    /\ LET failed == readFails \/ fs[file] = Missing
           c1 == IF failed THEN cache
                 ELSE StoreParsed(cache, file, ParseLines(file, fs[file].lines), FALSE)
       IN /\ cache' = c1
          /\ IF loads[i].pending = {file}
             THEN /\ loads' = RemoveAt(loads, i)
                  /\ AfterLoad(loads[i].caller, c1)
             ELSE /\ loads' = [loads EXCEPT ![i].pending = @ \ {file}]
                  /\ UNCHANGED <<watching, lastBroadcast>>
    /\ UNCHANGED <<updateQueue, isProcessing, updateTimer, elapsed, batches, fs,
                   refreshes, notified, taken, applied, broadcasted, lastCall>>

(***************************************************************************)
(* Values the variables of the other specifications rest at                *)
(***************************************************************************)
SvcIdle ==
    /\ cache = [p \in Paths |-> NoEntry]
    /\ updateQueue = <<>>
    /\ isProcessing = FALSE
    /\ updateTimer = "null"
    /\ elapsed = 0
    /\ batches = <<>>
    /\ fs = [p \in Paths |-> Missing]
    /\ watching = FALSE
    /\ loads = <<>>
    /\ refreshes = 0
    /\ lastBroadcast = [sent |-> FALSE, data |-> [p \in Paths |-> NoEntry], threw |-> FALSE]
    /\ notified = {}
    /\ taken = {}
    /\ applied = {}
    /\ broadcasted = {}
    /\ lastCall = [n |-> 0, started |-> FALSE]

\* no bundle computed yet
NoBundle ==
    [daily |-> <<>>, sessions |-> <<>>, projects |-> <<>>, hourly |-> <<>>,
     todayHourly |-> <<>>, today |-> <<>>, thisWeek |-> [totalCost |-> 0],
     thisMonth |-> [totalCost |-> 0]]

PureIdle ==
    /\ entries = <<>>
    /\ now = 0
    /\ tz = 0
    /\ hoursLimit = 0
    /\ skipTimeFilter = FALSE
    /\ daily = <<>>
    /\ hourly = <<>>
    /\ bundle = NoBundle
    /\ hourlyData = <<>>
    /\ sessions = <<>>
    /\ secondBundle = NoBundle
    /\ projects = <<>>
    /\ filePath = <<>>
    /\ fileLines = <<>>
    /\ fileEntries = <<>>
    /\ currentSessionCost = 0
    /\ pc = "idle"

(***************************************************************************)
(* The DataService specification                                           *)
(***************************************************************************)
\* the DataService just constructed (data-service.ts:13-22), over a log
\* directory in any state
Init ==
    /\ cache = [p \in Paths |-> NoEntry]
    /\ updateQueue = <<>>
    /\ isProcessing = FALSE
    /\ updateTimer = "null"
    /\ elapsed = 0
    /\ batches = <<>>
    /\ fs \in [Paths -> FileContents \cup {Missing}]
    /\ watching = FALSE
    /\ loads = <<>>
    /\ refreshes = 0
    /\ lastBroadcast = [sent |-> FALSE, data |-> [p \in Paths |-> NoEntry], threw |-> FALSE]
    /\ notified = {}
    /\ taken = {}
    /\ applied = {}
    /\ broadcasted = {}
    /\ lastCall = [n |-> 0, started |-> FALSE]
    /\ PureIdle

SvcInitialize == Initialize /\ UNCHANGED pureVars
SvcRefreshData == RefreshData /\ UNCHANGED pureVars
SvcGlobDone == \E i \in 1..Len(loads) : GlobDone(i) /\ UNCHANGED pureVars
SvcLoadParseDone ==
    \E i \in 1..Len(loads), f \in Paths, rf \in BOOLEAN :
        LoadParseDone(i, f, rf) /\ UNCHANGED pureVars
SvcFileChange ==
    \E p \in Paths, c \in FileContents \cup {Missing} :
        FileChange(p, c) /\ UNCHANGED pureVars
SvcTick == Tick /\ UNCHANGED pureVars
SvcProcessUpdateQueue == \E th \in BOOLEAN : ProcessUpdateQueue(th) /\ UNCHANGED pureVars
SvcParseDone ==
    \E i \in 1..Len(batches), rf \in BOOLEAN, th \in BOOLEAN :
        ParseDone(i, rf, th) /\ UNCHANGED pureVars

Next ==
    \/ SvcInitialize
    \/ SvcRefreshData
    \/ SvcGlobDone
    \/ SvcLoadParseDone
    \/ SvcFileChange
    \/ SvcTick
    \/ SvcProcessUpdateQueue
    \/ SvcParseDone

Spec == Init /\ [][Next]_vars

\* The event loop runs every armed timer and every settled promise: time passes,
\* a due timer fires, and every started file read or glob settles. Nothing
\* obliges the environment to change files or the user to refresh.
FairSpec ==
    /\ Spec
    /\ WF_vars(SvcTick)
    /\ WF_vars(SvcProcessUpdateQueue)
    /\ WF_vars(SvcParseDone)
    /\ WF_vars(SvcGlobDone)
    /\ WF_vars(SvcLoadParseDone)

(***************************************************************************)
(* C1..C2: the update queue                                                *)
(***************************************************************************)
\* C1: every notification passed to queueFileUpdate is eventually applied to the
\* cache by some batch (file reads terminate: FairSpec), also one that arrives
\* while an earlier batch is in flight and is followed by no other. (The claim
\* adds that the batch then broadcasts.)
C1_EveryNotificationApplied ==
    \A id \in 1..MaxNotifications : (id \in notified) ~> (id \in applied)

\* C2: at most one batch is in flight; isProcessing is true exactly while one is;
\* a processUpdateQueue call made while the flag is set starts no batch and leaves
\* updateQueue alone; a notification arriving during a batch is appended to
\* updateQueue and touches no batch; the flag is false once the batch has ended,
\* whether or not the parse or the broadcast threw.
C2_OneBatchAtATime ==
    /\ [](Len(batches) <= 1 /\ (isProcessing <=> Len(batches) = 1))
    /\ [][(lastCall'.n # lastCall.n /\ isProcessing)
             => (batches' = batches /\ updateQueue' = updateQueue /\ isProcessing')]_vars
    /\ [][(notified' # notified /\ isProcessing)
             => (/\ Len(updateQueue') = Len(updateQueue) + 1
                 /\ SubSeq(updateQueue', 1, Len(updateQueue)) = updateQueue
                 /\ batches' = batches
                 /\ taken' = taken
                 /\ isProcessing')]_vars
    /\ [][(Len(batches') < Len(batches)) => (~isProcessing' /\ batches' = <<>>)]_vars

\* a notification is waiting in updateQueue while a batch is in flight and the
\* timer that followed it has fired without starting a second batch
C2_Witness ==
    /\ isProcessing
    /\ Len(batches) = 1
    /\ updateQueue # <<>>
    /\ updateTimer = "fired"
    /\ lastCall.started = FALSE
    /\ lastCall.n >= 2

(***************************************************************************)
(* Dates: formatDate and localeCompare (data-loader.ts)                    *)
(***************************************************************************)
MinutesPerHour == 60
HoursPerDay == 24
MinutesPerDay == HoursPerDay * MinutesPerHour

\* the local calendar day an instant falls on, counted from 2023-12-30
\* (data-loader.ts:433: new Date(dateStr) read in the local zone)
LocalDay(t, zone) == (t + zone) \div MinutesPerDay

\* getFullYear / getMonth + 1 / getDate of a day: December 2023 up to day 1,
\* January 2024 from day 2 on
YearOf(d) == IF d <= 1 THEN 2023 ELSE 2024
MonthOf(d) == IF d <= 1 THEN 12 ELSE 1
DateOf(d) == IF d <= 1 THEN 30 + d ELSE d - 1

Dash == -1      \* the character "-", which sorts before every digit
PadStart2(n) == <<n \div 10, n % 10>>
Digits4(n) == <<n \div 1000, (n \div 100) % 10, (n \div 10) % 10, n % 10>>

\* data-loader.ts:432-438: "YYYY-MM-DD" of the local date, as a string of characters
formatDate(t, zone) ==
    LET d == LocalDay(t, zone)
    IN Digits4(YearOf(d)) \o <<Dash>> \o PadStart2(MonthOf(d)) \o <<Dash>>
           \o PadStart2(DateOf(d))

\* String.prototype.localeCompare on strings of digits, dashes, "T" and ":": the
\* first character that differs decides, else the shorter string goes first;
\* -1, 0 or 1
localeCompare(a, b) ==
    IF a = b THEN 0
    ELSE LET differ == {i \in 1..Min(Len(a), Len(b)) : a[i] # b[i]}
             first == CHOOSE i \in differ : \A j \in differ : i <= j
         IN IF differ = {} THEN (IF Len(a) < Len(b) THEN -1 ELSE 1)
            ELSE IF a[first] < b[first] THEN -1 ELSE 1

\* the characters "T" and ":" of an ISO string; both sort after every digit
CharT == 20
Colon == 10

\* Date.prototype.toISOString of an instant, "YYYY-MM-DDTHH:MM" in UTC (instants
\* are whole minutes, so the seconds and milliseconds are left out)
toISOString(t) ==
    formatDate(t, 0) \o <<CharT>> \o PadStart2((t % MinutesPerDay) \div MinutesPerHour)
        \o <<Colon>> \o PadStart2(t % MinutesPerHour)

\* new Date(iso).getTime(): the instant an ISO string names
DateParse(iso) ==
    LET year == iso[1] * 1000 + iso[2] * 100 + iso[3] * 10 + iso[4]
        date == iso[9] * 10 + iso[10]
        day == IF year = 2023 THEN date - 30 ELSE date + 1
    IN day * MinutesPerDay + (iso[12] * 10 + iso[13]) * MinutesPerHour
           + iso[15] * 10 + iso[16]

\* Date.prototype.setMinutes(0, 0, 0): the start of the local hour of an instant
StartOfHour(t, zone) == t - ((t + zone) % MinutesPerHour)

\* data-loader.ts:729-733: the "HH:MM" label of an hour slot, as <<hour, minute>>
\* of the local time of day
HourLabel(t, zone) ==
    <<((t + zone) \div MinutesPerHour) % HoursPerDay, (t + zone) % MinutesPerHour>>

(***************************************************************************)
(* identifySessions (ExpandedView.tsx)                                     *)
(***************************************************************************)
MaxHours == 7           \* longest hourly series handed to identifySessions
MaxCost == 2            \* largest cost of one hour slot or one event

\* ExpandedView.tsx:78 and 88: the session has reached the 5-hour limit
ReachedLimit_OffByOne(i, sessionStartIndex) == i - sessionStartIndex + 1 > 5
ReachedLimit(i, sessionStartIndex) == i - sessionStartIndex + 1 >= 5

\* ExpandedView.tsx:83: a zero-cost hour continues the open session
CanBridge_Never(i, sessionStartIndex) == FALSE
CanBridge(i, sessionStartIndex) == i - sessionStartIndex < 5

NoSession == [open |-> FALSE, startHour |-> <<0, 0>>, endHour |-> <<0, 0>>,
              hours |-> <<>>, totalCost |-> 0, isOngoing |-> FALSE]

\* ExpandedView.tsx:54-99: one iteration of the scan; st holds `sessions`,
\* `currentSession` (NoSession when null) and `sessionStartIndex`
SessionStep(st, hour, i) ==
    IF hour.cost > 0
    THEN LET start == IF st.cur.open THEN st.start ELSE i
             c0 == IF st.cur.open THEN st.cur
                   ELSE [open |-> TRUE, startHour |-> hour.hourLabel,
                         endHour |-> hour.hourLabel, hours |-> <<>>,
                         totalCost |-> 0, isOngoing |-> FALSE]
             c1 == [c0 EXCEPT !.hours = Append(@, hour),
                              !.totalCost = @ + hour.cost,
                              !.endHour = hour.hourLabel]
         IN IF ReachedLimit(i, start)
            THEN [sessions |-> Append(st.sessions, c1), cur |-> NoSession, start |-> start]
            ELSE [sessions |-> st.sessions, cur |-> c1, start |-> start]
    ELSE IF st.cur.open /\ CanBridge(i, st.start)
    THEN LET c1 == [st.cur EXCEPT !.hours = Append(@, hour),
                                  !.endHour = hour.hourLabel]
         IN IF ReachedLimit(i, st.start)
            THEN [sessions |-> Append(st.sessions, c1), cur |-> NoSession,
                  start |-> st.start]
            ELSE [sessions |-> st.sessions, cur |-> c1, start |-> st.start]
    ELSE IF st.cur.open
    THEN [sessions |-> Append(st.sessions, st.cur), cur |-> NoSession, start |-> st.start]
    ELSE st

RECURSIVE SessionScan(_, _)
\* the state of the scan after the first n slots
SessionScan(data, n) ==
    IF n = 0 THEN [sessions |-> <<>>, cur |-> NoSession, start |-> -1]
    ELSE SessionStep(SessionScan(data, n - 1), data[n], n)

\* ExpandedView.tsx:117: sessions.reverse()
Reverse_Keep(s) == s
Reverse(s) == [i \in 1..Len(s) |-> s[Len(s) + 1 - i]]

\* ExpandedView.tsx:104-110: the flushed session holds the last slot of the series
\* and has fewer than 5 member hours
IsOngoing_Never(hours, lastHour) == FALSE
IsOngoing(hours, lastHour) ==
    /\ \E k \in 1..Len(hours) : hours[k] = lastHour
    /\ Len(hours) < 5

\* ExpandedView.tsx:102: a session is still open after the loop
FlushesOpenSession_Never(cur) == FALSE
FlushesOpenSession(cur) == cur.open /\ Len(cur.hours) > 0

\* ExpandedView.tsx:47-120
identifySessions(data) ==
    LET st == SessionScan(data, Len(data))
        lastHour == data[Len(data)]
        ongoing == IsOngoing(st.cur.hours, lastHour)
        all == IF FlushesOpenSession(st.cur)
               THEN Append(st.sessions, [st.cur EXCEPT !.isOngoing = ongoing])
               ELSE st.sessions
    IN Reverse(all)

\* a dense ascending hourly series of n slots from instant t0, with the given costs
Series(t0, costs, zone) ==
    [i \in 1..Len(costs) |->
        [hour |-> toISOString(t0 + (i - 1) * MinutesPerHour),
         hourLabel |-> HourLabel(t0 + (i - 1) * MinutesPerHour, zone),
         cost |-> costs[i]]]

\* the instants the series start at: 07:00 and 10:00 of the first day
SeriesStarts == {7 * MinutesPerHour, 10 * MinutesPerHour}

InitSessions ==
    /\ SvcIdle
    /\ entries = <<>>
    /\ now = 0
    /\ tz = 0
    /\ hoursLimit = 0
    /\ skipTimeFilter = FALSE
    /\ daily = <<>>
    /\ hourly = <<>>
    /\ bundle = NoBundle
    /\ \E t0 \in SeriesStarts, costs \in SeqsUpTo(0..MaxCost, MaxHours) :
           hourlyData = Series(t0, costs, 0)
    /\ sessions = <<>>
    /\ secondBundle = NoBundle
    /\ projects = <<>>
    /\ filePath = <<>>
    /\ fileLines = <<>>
    /\ fileEntries = <<>>
    /\ currentSessionCost = 0
    /\ pc = "idle"

\* ExpandedView.tsx:133-134
IdentifySessions ==
    /\ pc = "idle"
    /\ sessions' = identifySessions(hourlyData)
    /\ pc' = "identifySessions"
    /\ UNCHANGED <<entries, now, tz, hoursLimit, skipTimeFilter, daily, hourly, bundle,
                   hourlyData, secondBundle, projects, filePath, fileLines, fileEntries,
                   currentSessionCost>>
    /\ UNCHANGED svcVars

NextSessions == IdentifySessions

SpecSessions == InitSessions /\ [][NextSessions]_vars

(***************************************************************************)
(* C5..C7: identifySessions                                                *)
(***************************************************************************)
SessionsDone == pc = "identifySessions"

\* the slots of hourlyData that session s holds, as indices
MemberIndices(s) ==
    {i \in 1..Len(hourlyData) : \E j \in 1..Len(s.hours) : s.hours[j] = hourlyData[i]}

\* s.hours is the run hourlyData[a], hourlyData[a+1], ... for some a
IsConsecutiveRun(s) ==
    \E a \in 1..Len(hourlyData) :
        /\ a + Len(s.hours) - 1 <= Len(hourlyData)
        /\ \A j \in 1..Len(s.hours) : s.hours[j] = hourlyData[a + j - 1]

\* C5: no session has more than 5 member hours; its members are consecutive slots
\* of the series, the last of them less than 5 hours after the session's start.
C5_SessionAtMostFiveHours ==
    SessionsDone =>
        \A k \in 1..Len(sessions) :
            /\ Len(sessions[k].hours) \in 1..5
            /\ IsConsecutiveRun(sessions[k])
            /\ DateParse(sessions[k].hours[Len(sessions[k].hours)].hour)
                   < DateParse(sessions[k].hours[1].hour) + 5 * MinutesPerHour

\* the cap has closed a session of 5 hours and activity went on after it
C5_Witness ==
    /\ SessionsDone
    /\ Len(sessions) >= 2
    /\ Len(sessions[2].hours) = 5
    /\ sessions[2].hours[5].cost > 0
    /\ DateParse(sessions[1].hours[1].hour)
           = DateParse(sessions[2].hours[5].hour) + MinutesPerHour

\* C6: a session is closed before the end of input only by the 5-hour cap: every
\* session but the newest (the first of the result) has exactly 5 member hours,
\* and every slot lying between two sessions, a member of neither, has zero cost.
C6_SplitOnlyAtCap ==
    SessionsDone =>
        /\ \A k \in 2..Len(sessions) : Len(sessions[k].hours) = 5
        /\ \A i \in 1..Len(hourlyData) :
              ( /\ \A k \in 1..Len(sessions) : i \notin MemberIndices(sessions[k])
                /\ \E k \in 1..Len(sessions) :
                      \E m \in MemberIndices(sessions[k]) : m < i
                /\ \E k \in 1..Len(sessions) :
                      \E m \in MemberIndices(sessions[k]) : m > i )
              => hourlyData[i].cost = 0

\* two sessions with a quiet slot between them, the older one holding a bridged
\* zero-cost hour
C6_Witness ==
    /\ SessionsDone
    /\ Len(sessions) = 2
    /\ \E j \in 1..Len(sessions[2].hours) : sessions[2].hours[j].cost = 0
    /\ DateParse(sessions[1].hours[1].hour)
           > DateParse(sessions[2].hours[5].hour) + MinutesPerHour

\* the series of the scenario: it ends with the 13:00 slot and its slots with
\* nonzero cost are exactly those of 10:00, 11:00 and 13:00
C7_Scenario ==
    /\ Len(hourlyData) >= 4
    /\ DateParse(hourlyData[Len(hourlyData)].hour) = 13 * MinutesPerHour
    /\ \A i \in 1..Len(hourlyData) :
          (hourlyData[i].cost > 0) <=>
              (DateParse(hourlyData[i].hour) \in {10 * MinutesPerHour,
                                                  11 * MinutesPerHour,
                                                  13 * MinutesPerHour})

\* C7: for that series identifySessions yields one session, of hours 10, 11, 12
\* and 13 (12 bridged), its totalCost the sum of the three nonzero costs, ongoing.
C7_BridgedScenario ==
    (SessionsDone /\ C7_Scenario) =>
        LET n == Len(hourlyData) IN
        /\ Len(sessions) = 1
        /\ sessions[1].hours = SubSeq(hourlyData, n - 3, n)
        /\ sessions[1].hours[3].cost = 0
        /\ sessions[1].totalCost =
               hourlyData[n - 3].cost + hourlyData[n - 2].cost + hourlyData[n].cost
        /\ sessions[1].startHour = <<10, 0>>
        /\ sessions[1].endHour = <<13, 0>>
        /\ sessions[1].isOngoing

\* the scenario, on a series that starts with quiet hours before 10:00
C7_Witness ==
    /\ SessionsDone
    /\ C7_Scenario
    /\ Len(hourlyData) = 7
    /\ Len(sessions) = 1

(***************************************************************************)
(* calculateDailySummary (data-loader.ts) and calculatePercentageChange    *)
(***************************************************************************)
MaxEntries == 3         \* longest event list handed to the aggregation functions

\* a number that is a quotient of integers, or undefined
Undefined == [set |-> FALSE, num |-> 0, den |-> 1]
Quotient(n, d) == [set |-> TRUE, num |-> n, den |-> d]
\* q is defined, finite and equal to the integer v
IsValue(q, v) == q.set /\ q.den # 0 /\ q.num = v * q.den

\* tailwind.config.js:96-99 (shared/calculate-cost)
calculatePercentageChange(current, previous) ==
    IF previous = 0 THEN (IF current > 0 THEN Quotient(100, 1) ELSE Quotient(0, 1))
    ELSE Quotient((current - previous) * 100, previous)

\* data-loader.ts:497-505: the keys of the Map `grouped` in insertion order, from
\* the key of every entry
GroupKeys(keys) ==
    LET firsts == SelectSeq([i \in 1..Len(keys) |-> i],
                            LAMBDA i : \A j \in 1..(i - 1) : keys[j] # keys[i])
    IN [k \in 1..Len(firsts) |-> keys[firsts[k]]]

RECURSIVE SumCost(_)
\* data-loader.ts:518-528: `cost += entry.costUSD` over the entries of a group
SumCost_LastOnly(es) == IF es = <<>> THEN 0 ELSE es[Len(es)].costUSD
SumCost(es) == IF es = <<>> THEN 0 ELSE Head(es).costUSD + SumCost(Tail(es))

\* data-loader.ts:539: the comparator of the daily sort
DailyOrder_Ascending(a, b) == localeCompare(a.date, b.date)
DailyOrder(a, b) == localeCompare(b.date, a.date)

\* Array.prototype.sort (stable), given the comparator's result order[i, j] on the
\* elements at i and j: an element goes behind those that compare lower and those
\* that compare equal and came before it
SortBy(s, order) ==
    LET pos == [i \in 1..Len(s) |->
                   1 + Cardinality({j \in 1..Len(s) :
                           order[j, i] < 0 \/ (order[j, i] = 0 /\ j < i)})]
    IN [k \in 1..Len(s) |-> s[CHOOSE i \in 1..Len(s) : pos[i] = k]]

\* data-loader.ts:545: percentChange is computed against this older entry
HasPrevious_NonNegative(previous) == previous.cost >= 0
HasPrevious(previous) == previous.cost > 0

\* data-loader.ts:496-552
calculateDailySummary(es, zone) ==
    LET Key(e) == formatDate(e.timestamp, zone)
        dates == GroupKeys([i \in 1..Len(es) |-> Key(es[i])])
        summaries ==
            [k \in 1..Len(dates) |->
                LET dayEntries == SelectSeq(es, LAMBDA e : Key(e) = dates[k])
                IN [date |-> dates[k], cost |-> SumCost(dayEntries),
                    entryCount |-> Len(dayEntries), percentChange |-> Undefined]]
        sorted == SortBy(summaries,
                         [i, j \in 1..Len(summaries) |->
                             DailyOrder(summaries[i], summaries[j])])
    IN [i \in 1..Len(sorted) |->
           IF i < Len(sorted) /\ HasPrevious(sorted[i + 1])
           THEN [sorted[i] EXCEPT !.percentChange =
                    Quotient((sorted[i].cost - sorted[i + 1].cost) * 100,
                             sorted[i + 1].cost)]
           ELSE sorted[i]]

\* instants of the events: 2023-12-31T23:00Z, 2024-01-01T10:00Z, 2024-01-01T14:00Z
\* and 2024-01-02T10:00Z
At(day, hour, minute) == day * MinutesPerDay + hour * MinutesPerHour + minute
DailyInstants == {At(1, 23, 0), At(2, 10, 0), At(2, 14, 0), At(3, 10, 0)}
\* costs of the events, in tenths
EventCosts == {0, 3, 5, 10}
\* local zones: UTC, UTC-05:00 and UTC+05:30
Zones == {0, -300, 330}

InitDaily ==
    /\ SvcIdle
    /\ entries \in SeqsUpTo([timestamp : DailyInstants, costUSD : EventCosts], MaxEntries)
    /\ now = 0
    /\ tz \in Zones
    /\ hoursLimit = 0
    /\ skipTimeFilter = FALSE
    /\ daily = <<>>
    /\ hourly = <<>>
    /\ bundle = NoBundle
    /\ hourlyData = <<>>
    /\ sessions = <<>>
    /\ secondBundle = NoBundle
    /\ projects = <<>>
    /\ filePath = <<>>
    /\ fileLines = <<>>
    /\ fileEntries = <<>>
    /\ currentSessionCost = 0
    /\ pc = "idle"

CalculateDailySummary ==
    /\ pc = "idle"
    /\ daily' = calculateDailySummary(entries, tz)
    /\ pc' = "calculateDailySummary"
    /\ UNCHANGED <<entries, now, tz, hoursLimit, skipTimeFilter, hourly, bundle,
                   hourlyData, sessions, secondBundle, projects, filePath, fileLines,
                   fileEntries,
                   currentSessionCost>>
    /\ UNCHANGED svcVars

NextDaily == CalculateDailySummary

SpecDaily == InitDaily /\ [][NextDaily]_vars

(***************************************************************************)
(* C3, C8..C10: calculateDailySummary                                      *)
(***************************************************************************)
DailyDone == pc = "calculateDailySummary"

\* the calendar date a "YYYY-MM-DD" string names, as the number YYYYMMDD
DateNumber(date) ==
    (date[1] * 1000 + date[2] * 100 + date[3] * 10 + date[4]) * 10000
        + (date[6] * 10 + date[7]) * 100 + date[9] * 10 + date[10]

\* the same number for a local day counted from 2023-12-30
DayNumber(d) == IF d <= 1 THEN 20231230 + d ELSE 20240100 + (d - 1)

EntryCosts == [i \in 1..Len(entries) |-> entries[i].costUSD]
DailyCosts == [i \in 1..Len(daily) |-> daily[i].cost]

\* C3: the costs of the daily summaries add up to the costs of all input events.
C3_DailyCostConserved ==
    DailyDone => SumSeq(DailyCosts, Len(daily)) = SumSeq(EntryCosts, Len(entries))

\* several days, one of them grouping several events of nonzero cost
C3_Witness ==
    /\ DailyDone
    /\ Len(daily) >= 2
    /\ \E i \in 1..Len(daily) : daily[i].entryCount >= 2 /\ daily[i].cost > 5

\* the events that fall on the local date numbered n
EntriesOn(n) ==
    {i \in 1..Len(entries) : DayNumber(LocalDay(entries[i].timestamp, tz)) = n}

\* C8: one summary per distinct local calendar date, strictly descending by date;
\* percentChange is set on entry i exactly when the next older entry i+1 exists
\* and has cost > 0, and is then (cost_i - cost_{i+1}) / cost_{i+1} * 100; it is
\* never set on the oldest entry.
C8_DailySortedWithPercentChange ==
    DailyDone =>
        /\ \A n \in {DayNumber(LocalDay(entries[i].timestamp, tz)) : i \in 1..Len(entries)} :
              \E k \in 1..Len(daily) : DateNumber(daily[k].date) = n
        /\ \A k \in 1..Len(daily) :
              /\ daily[k].entryCount = Cardinality(EntriesOn(DateNumber(daily[k].date)))
              /\ daily[k].entryCount > 0
        /\ \A k \in 1..(Len(daily) - 1) :
              DateNumber(daily[k].date) > DateNumber(daily[k + 1].date)
        /\ \A k \in 1..Len(daily) :
              /\ daily[k].percentChange.set
                    <=> (k < Len(daily) /\ daily[k + 1].cost > 0)
              /\ daily[k].percentChange.set =>
                    daily[k].percentChange.num * daily[k + 1].cost
                        = (daily[k].cost - daily[k + 1].cost) * 100
                              * daily[k].percentChange.den
        /\ Len(daily) > 0 => ~daily[Len(daily)].percentChange.set

\* three days across the turn of the year, the middle one of cost 0: the newest
\* has no percentChange, the middle one has -100, the oldest has none
C8_Witness ==
    /\ DailyDone
    /\ Len(daily) = 3
    /\ daily[1].cost > 0 /\ daily[2].cost = 0 /\ daily[3].cost > 0
    /\ DateNumber(daily[3].date) = 20231231
    /\ ~daily[1].percentChange.set
    /\ IsValue(daily[2].percentChange, -100)

Jan1 == <<2, 0, 2, 4, Dash, 0, 1, Dash, 0, 1>>
Jan2 == <<2, 0, 2, 4, Dash, 0, 1, Dash, 0, 2>>

\* two events on 2024-01-01 costing 0.5 and 0.3, one on 2024-01-02 costing 1.0
C9_Scenario ==
    /\ Len(entries) = 3
    /\ \E i, j, k \in 1..3 :
          /\ {i, j, k} = {1, 2, 3}
          /\ entries[i].costUSD = 5 /\ LocalDay(entries[i].timestamp, tz) = 2
          /\ entries[j].costUSD = 3 /\ LocalDay(entries[j].timestamp, tz) = 2
          /\ entries[k].costUSD = 10 /\ LocalDay(entries[k].timestamp, tz) = 3

\* C9 as claimed: two entries, 2024-01-02 (cost 1.0, entryCount 1, percentChange
\* undefined) then 2024-01-01 (cost 0.8, entryCount 2, percentChange 25).
C9_ScenarioAsClaimed ==
    (DailyDone /\ C9_Scenario) =>
        /\ Len(daily) = 2
        /\ daily[1].date = Jan2 /\ daily[1].cost = 10 /\ daily[1].entryCount = 1
        /\ ~daily[1].percentChange.set
        /\ daily[2].date = Jan1 /\ daily[2].cost = 8 /\ daily[2].entryCount = 2
        /\ IsValue(daily[2].percentChange, 25)

\* C9 amended: two entries, 2024-01-02 (cost 1.0, entryCount 1, percentChange 25,
\* its change against the older day) then 2024-01-01 (cost 0.8, entryCount 2,
\* percentChange undefined, being the oldest).
C9_ScenarioAmended ==
    (DailyDone /\ C9_Scenario) =>
        /\ Len(daily) = 2
        /\ daily[1].date = Jan2 /\ daily[1].cost = 10 /\ daily[1].entryCount = 1
        /\ IsValue(daily[1].percentChange, 25)
        /\ daily[2].date = Jan1 /\ daily[2].cost = 8 /\ daily[2].entryCount = 2
        /\ ~daily[2].percentChange.set

\* the scenario, the event of 2024-01-02 given first
C9_Witness ==
    /\ DailyDone
    /\ C9_Scenario
    /\ entries[1].costUSD = 10
    /\ Len(daily) = 2

\* C10: a day whose next older day has cost exactly 0 and whose own cost is
\* positive gets percentChange = 100, the value calculatePercentageChange gives
\* for a previous value of 0 (never an infinite or NaN value).
C10_ZeroPreviousGives100 ==
    DailyDone =>
        \A k \in 1..(Len(daily) - 1) :
            (daily[k + 1].cost = 0 /\ daily[k].cost > 0) =>
                /\ IsValue(daily[k].percentChange, 100)
                /\ IsValue(calculatePercentageChange(daily[k].cost, daily[k + 1].cost), 100)

(***************************************************************************)
(* calculateProjectSummary (data-loader.ts)                                *)
(***************************************************************************)
\* data-loader.ts:620: `entry.project || "Unknown"`
ProjectOf(e) == IF e.project = "" THEN "Unknown" ELSE e.project

\* data-loader.ts:658 and 671: the comparator of the sort by cost
CostOrder_Ascending(a, b) == a.cost - b.cost
CostOrder(a, b) == b.cost - a.cost

\* data-loader.ts:668: a project's share of the total cost
Percentage(cost, totalCost) ==
    IF totalCost > 0 THEN Quotient(cost * 100, totalCost) ELSE Quotient(0, 1)

\* data-loader.ts:612-672
calculateProjectSummary(es) ==
    LET names == GroupKeys([i \in 1..Len(es) |-> ProjectOf(es[i])])
        totalCost == SumCost(es)
        summaries ==
            [k \in 1..Len(names) |->
                LET projectEntries == SelectSeq(es, LAMBDA e : ProjectOf(e) = names[k])
                IN [project |-> names[k],
                    cost |-> SumCost(projectEntries),
                    percentage |-> Percentage(SumCost(projectEntries), totalCost),
                    sessions |-> Cardinality({projectEntries[i].session :
                                                 i \in 1..Len(projectEntries)})]]
    IN SortBy(summaries,
              [i, j \in 1..Len(summaries) |-> CostOrder(summaries[i], summaries[j])])

\* the events handed to calculateProjectSummary: two projects, two session files,
\* costs 0, 1.0 and 2.0
ProjectIds == {"project-a", "project-b"}
SessionIds == {"session-1", "session-2"}
ProjectCosts == {0, 10, 20}
ProjectEvents ==
    [project : ProjectIds, session : SessionIds, costUSD : ProjectCosts,
     timestamp : {At(2, 10, 0)}]

InitProjects ==
    /\ SvcIdle
    /\ entries \in SeqsUpTo(ProjectEvents, MaxEntries)
    /\ now = 0
    /\ tz = 0
    /\ hoursLimit = 0
    /\ skipTimeFilter = FALSE
    /\ daily = <<>>
    /\ hourly = <<>>
    /\ bundle = NoBundle
    /\ hourlyData = <<>>
    /\ sessions = <<>>
    /\ secondBundle = NoBundle
    /\ projects = <<>>
    /\ filePath = <<>>
    /\ fileLines = <<>>
    /\ fileEntries = <<>>
    /\ currentSessionCost = 0
    /\ pc = "idle"

CalculateProjectSummary ==
    /\ pc = "idle"
    /\ projects' = calculateProjectSummary(entries)
    /\ pc' = "calculateProjectSummary"
    /\ UNCHANGED <<entries, now, tz, hoursLimit, skipTimeFilter, daily, hourly, bundle,
                   hourlyData, sessions, secondBundle, filePath, fileLines,
                   fileEntries,
                   currentSessionCost>>
    /\ UNCHANGED svcVars

NextProjects == CalculateProjectSummary

SpecProjects == InitProjects /\ [][NextProjects]_vars

(***************************************************************************)
(* calculateHourlySummary, getCurrentHourEntries, aggregateUsageData       *)
(* (data-loader.ts)                                                        *)
(***************************************************************************)
\* Date.prototype.setHours(0, 0, 0, 0): local midnight of the day of an instant
StartOfDay(t, zone) == t - ((t + zone) % MinutesPerDay)

\* getHours() * 60 + getMinutes(): the local time of day of an instant
TimeOfDay(t, zone) == (t + zone) % MinutesPerDay

\* Math.ceil(n / d) for n >= 0 and d > 0
CeilDiv(n, d) == (n + d - 1) \div d

\* data-loader.ts:745: the comparator of the hourly sort
HourlyOrder(a, b) == localeCompare(a.hour, b.hour)

\* data-loader.ts:762-771: the number of slots of the densified series
actualHoursLimit_OneMore(limit, skip, t, startHour) ==
    IF skip THEN Min(CeilDiv(t - startHour, MinutesPerHour), 24) + 1 ELSE limit + 1
actualHoursLimit(limit, skip, t, startHour) ==
    IF skip THEN Min(CeilDiv(t - startHour, MinutesPerHour), 24) ELSE limit

\* data-loader.ts:674-803, with `new Date()` read as t in the local zone
calculateHourlySummary(es, limit, skip, t, zone) ==
    LET cutoffTime == t - limit * MinutesPerHour
        recentEntries ==
            IF skip THEN es ELSE SelectSeq(es, LAMBDA e : e.timestamp >= cutoffTime)
        Key(e) == toISOString(StartOfHour(e.timestamp, zone))
        hours == GroupKeys([i \in 1..Len(recentEntries) |-> Key(recentEntries[i])])
        grouped ==
            [k \in 1..Len(hours) |->
                LET hourEntries == SelectSeq(recentEntries, LAMBDA e : Key(e) = hours[k])
                IN [hour |-> hours[k],
                    hourLabel |-> HourLabel(DateParse(hours[k]), zone),
                    cost |-> SumCost(hourEntries),
                    entryCount |-> Len(hourEntries)]]
        summaries == SortBy(grouped,
                            [i, j \in 1..Len(grouped) |->
                                HourlyOrder(grouped[i], grouped[j])])
        startHour == IF skip THEN StartOfDay(t, zone) ELSE StartOfHour(cutoffTime, zone)
        slots == actualHoursLimit(limit, skip, t, startHour)
    IN [n \in 1..slots |->
           LET currentHour == startHour + (n - 1) * MinutesPerHour
               hourKey == toISOString(currentHour)
               found == {k \in 1..Len(summaries) : summaries[k].hour = hourKey}
           IN IF found # {}
              THEN summaries[CHOOSE k \in found : \A j \in found : k <= j]
              ELSE [hour |-> hourKey, hourLabel |-> HourLabel(currentHour, zone),
                    cost |-> 0, entryCount |-> 0]]

RECURSIVE mostRecentEntry(_, _)
\* data-loader.ts:814-816, 906-908: entries.reduce keeping the strictly later entry
mostRecentEntry(latest, es) ==
    IF es = <<>> THEN latest
    ELSE mostRecentEntry(IF Head(es).timestamp > latest.timestamp THEN Head(es)
                         ELSE latest, Tail(es))

\* data-loader.ts:821, 913: the local years of now and of the data differ
YearMismatch(recentDate, t, zone) ==
    YearOf(LocalDay(t, zone)) # YearOf(LocalDay(recentDate, zone))

\* data-loader.ts:805-841, called without a referenceDate
getCurrentHourEntries(es, t, zone) ==
    LET recentDate == mostRecentEntry(Head(es), Tail(es)).timestamp
        effectiveNow ==
            IF es # <<>> /\ YearMismatch(recentDate, t, zone)
            THEN StartOfDay(recentDate, zone) + TimeOfDay(t, zone)
            ELSE t
        currentHourStart == StartOfHour(effectiveNow, zone)
        currentHourEnd == currentHourStart + MinutesPerHour
    IN SelectSeq(es, LAMBDA e : /\ e.timestamp >= currentHourStart
                                /\ e.timestamp < currentHourEnd)

\* data-loader.ts:851-899, 953-1000: the current-hour patch of a densified series
CurrentHourPatch_Never(series, currentHourEntries, t, zone) == series
CurrentHourPatch(series, currentHourEntries, t, zone) ==
    LET currentHourKey == StartOfHour(t, zone)
        currentHourISO == toISOString(currentHourKey)
        currentHourCost == SumCost(currentHourEntries)
        pushed == Append(series,
                         [hour |-> currentHourISO,
                          hourLabel |-> HourLabel(currentHourKey, zone),
                          cost |-> currentHourCost,
                          entryCount |-> Len(currentHourEntries)])
    IN IF /\ currentHourEntries # <<>>
          /\ \A i \in 1..Len(series) : series[i].hour # currentHourISO
          /\ currentHourCost > 0
       THEN SortBy(pushed, [i, j \in 1..Len(pushed) |-> HourlyOrder(pushed[i], pushed[j])])
       ELSE series

\* data-loader.ts:903-921: the date string taken as "today"
Today(es, t, zone) ==
    IF es # <<>> /\ YearMismatch(mostRecentEntry(Head(es), Tail(es)).timestamp, t, zone)
    THEN formatDate(mostRecentEntry(Head(es), Tail(es)).timestamp, zone)
    ELSE formatDate(t, 0)

\* data-loader.ts:925-946: the events of "today", or else of the latest date
effectiveTodayEntries(es, t, zone) ==
    LET today == Today(es, t, zone)
        todayEntries == SelectSeq(es, LAMBDA e : formatDate(e.timestamp, zone) = today)
        recentDates == {formatDate(es[i].timestamp, zone) : i \in 1..Len(es)}
        mostRecentDate ==
            CHOOSE d \in recentDates : \A o \in recentDates : localeCompare(o, d) <= 0
    IN IF todayEntries = <<>> /\ es # <<>>
       THEN SelectSeq(es, LAMBDA e : formatDate(e.timestamp, zone) = mostRecentDate)
       ELSE todayEntries

\* data-loader.ts:1003: `|| null`
NullSummary == [date |-> <<>>, cost |-> 0, entryCount |-> 0, percentChange |-> Undefined]

\* new Date("YYYY-MM-DD").getTime(): a date-only string names midnight UTC
DateOnlyParse(date) ==
    LET year == date[1] * 1000 + date[2] * 100 + date[3] * 10 + date[4]
        dayOfMonth == date[9] * 10 + date[10]
    IN (IF year = 2023 THEN dayOfMonth - 30 ELSE dayOfMonth + 1) * MinutesPerDay

\* Date.prototype.getDay of a local day: 2023-12-30 was a Saturday
WeekdayOf(d) == (d + 6) % 7

\* data-loader.ts:1006-1008: local midnight of the Sunday on or before today
WeekStart(t, zone) ==
    (LocalDay(t, zone) - WeekdayOf(LocalDay(t, zone))) * MinutesPerDay - zone

\* data-loader.ts:1019-1021: local midnight of the first day of this month
MonthStart(t, zone) ==
    (LocalDay(t, zone) - DateOf(LocalDay(t, zone)) + 1) * MinutesPerDay - zone

\* data-loader.ts:1031-1049: the cost of the daily summaries from an instant on
TotalCostSince(dailySummary, start) ==
    LET days == SelectSeq(dailySummary, LAMBDA day : DateOnlyParse(day.date) >= start)
    IN SumSeq([i \in 1..Len(days) |-> days[i].cost], Len(days))

\* data-loader.ts:554-610
calculateSessionSummary(es) ==
    LET Key(e) == <<ProjectOf(e), e.session>>
        keys == GroupKeys([i \in 1..Len(es) |-> Key(es[i])])
        summaries ==
            [k \in 1..Len(keys) |->
                LET sessionEntries == SelectSeq(es, LAMBDA e : Key(e) = keys[k])
                    times == {sessionEntries[i].timestamp : i \in 1..Len(sessionEntries)}
                IN [project |-> keys[k][1],
                    session |-> keys[k][2],
                    cost |-> SumCost(sessionEntries),
                    startTime |-> CHOOSE t \in times : \A u \in times : t <= u,
                    endTime |-> CHOOSE t \in times : \A u \in times : t >= u,
                    entryCount |-> Len(sessionEntries)]]
    IN SortBy(summaries,
              [i, j \in 1..Len(summaries) |-> CostOrder(summaries[i], summaries[j])])

\* data-loader.ts:843-1061: the event list as the call leaves it; the call and the
\* functions it calls only read the list (for-of, filter, map, reduce) and sort
\* arrays they have built themselves
EntriesAfterAggregate_Sorted(es) ==
    SortBy(es, [i, j \in 1..Len(es) |-> es[j].timestamp - es[i].timestamp])
EntriesAfterAggregate(es) == es

\* data-loader.ts:843-1061, with every `new Date()` read as t in the local zone
aggregateUsageData(es, t, zone) ==
    LET dailySummary == calculateDailySummary(es, zone)
        today == Today(es, t, zone)
        todayEvents == effectiveTodayEntries(es, t, zone)
        found == {i \in 1..Len(dailySummary) : dailySummary[i].date = today}
    IN [daily |-> dailySummary,
        sessions |-> calculateSessionSummary(es),
        projects |-> calculateProjectSummary(es),
        hourly |-> CurrentHourPatch(calculateHourlySummary(es, 24, FALSE, t, zone),
                                    getCurrentHourEntries(es, t, zone), t, zone),
        todayHourly |->
            CurrentHourPatch(calculateHourlySummary(todayEvents, 24, TRUE, t, zone),
                             getCurrentHourEntries(todayEvents, t, zone), t, zone),
        today |-> IF found = {} THEN NullSummary
                  ELSE dailySummary[CHOOSE i \in found : \A j \in found : i <= j],
        thisWeek |-> [totalCost |-> TotalCostSince(dailySummary, WeekStart(t, zone))],
        thisMonth |-> [totalCost |-> TotalCostSince(dailySummary, MonthStart(t, zone))]]

\* instants of the events: 2023-12-31T10:10Z, 2024-01-01T10:20Z, 2024-01-02T09:50Z
\* and 2024-01-02T10:10Z; the reference instants 2024-01-02T10:00Z and 10:30Z
HourlyInstants == {At(1, 10, 10), At(2, 10, 20), At(3, 9, 50), At(3, 10, 10)}
NowInstants == {At(3, 10, 0), At(3, 10, 30)}
\* the events: one of cost 0.5 at each instant, and free ones in the last two hours
HourlyEvents ==
    [timestamp : HourlyInstants, costUSD : {5},
     project : {"project-a"}, session : {"session-1"}]
        \cup [timestamp : {At(3, 9, 50), At(3, 10, 10)}, costUSD : {0},
               project : {"project-a"}, session : {"session-1"}]
HourlyZones == {0, 330}
\* the window lengths asked of calculateHourlySummary
HourLimits == {1, 3, 24}

InitHourly ==
    /\ SvcIdle
    /\ entries \in SeqsUpTo(HourlyEvents, MaxEntries)
    /\ now \in NowInstants
    /\ tz \in HourlyZones
    /\ hoursLimit = 0
    /\ skipTimeFilter = FALSE
    /\ daily = <<>>
    /\ hourly = <<>>
    /\ bundle = NoBundle
    /\ hourlyData = <<>>
    /\ sessions = <<>>
    /\ secondBundle = NoBundle
    /\ projects = <<>>
    /\ filePath = <<>>
    /\ fileLines = <<>>
    /\ fileEntries = <<>>
    /\ currentSessionCost = 0
    /\ pc = "idle"

CalculateHourlySummary ==
    /\ pc = "idle"
    /\ \E limit \in HourLimits, skip \in BOOLEAN :
        /\ hoursLimit' = limit
        /\ skipTimeFilter' = skip
        /\ hourly' = calculateHourlySummary(entries, limit, skip, now, tz)
    /\ pc' = "calculateHourlySummary"
    /\ UNCHANGED <<entries, now, tz, daily, bundle, hourlyData, sessions, secondBundle,
                   projects, filePath, fileLines, fileEntries,
                   currentSessionCost>>
    /\ UNCHANGED svcVars

AggregateUsageData ==
    /\ pc = "idle"
    /\ bundle' = aggregateUsageData(entries, now, tz)
    /\ entries' = EntriesAfterAggregate(entries)
    /\ pc' = "aggregateUsageData"
    /\ UNCHANGED <<now, tz, hoursLimit, skipTimeFilter, daily, hourly,
                   hourlyData, sessions, secondBundle, projects, filePath, fileLines,
                   fileEntries,
                   currentSessionCost>>
    /\ UNCHANGED svcVars

NextHourly == CalculateHourlySummary \/ AggregateUsageData

SpecHourly == InitHourly /\ [][NextHourly]_vars

\* the events handed to aggregateUsageData: cost 0.5 each, at 2023-12-31T10:10Z,
\* 2024-01-01T10:20Z, 2024-01-02T10:10Z and 2024-01-02T19:00Z, in two projects
AggregateEvents ==
    {[timestamp |-> At(1, 10, 10), costUSD |-> 5,
      project |-> "project-b", session |-> "session-2"],
     [timestamp |-> At(2, 10, 20), costUSD |-> 5,
      project |-> "project-a", session |-> "session-1"],
     [timestamp |-> At(3, 10, 10), costUSD |-> 5,
      project |-> "project-b", session |-> "session-1"],
     [timestamp |-> At(3, 19, 0), costUSD |-> 5,
      project |-> "project-a", session |-> "session-2"]}
\* reference instants 2024-01-02T02:00Z, 10:30Z and 20:00Z, in the zones UTC-05:00,
\* UTC and UTC+05:30
AggregateNows == {At(3, 2, 0), At(3, 10, 30), At(3, 20, 0)}
AggregateZones == {-300, 0, 330}

\* an event list of the past, aggregated at a reference instant
InitAggregate ==
    /\ SvcIdle
    /\ entries \in SeqsUpTo(AggregateEvents, MaxEntries)
    /\ now \in AggregateNows
    /\ \A i \in 1..Len(entries) : entries[i].timestamp <= now
    /\ tz \in AggregateZones
    /\ hoursLimit = 0
    /\ skipTimeFilter = FALSE
    /\ daily = <<>>
    /\ hourly = <<>>
    /\ bundle = NoBundle
    /\ hourlyData = <<>>
    /\ sessions = <<>>
    /\ secondBundle = NoBundle
    /\ projects = <<>>
    /\ filePath = <<>>
    /\ fileLines = <<>>
    /\ fileEntries = <<>>
    /\ currentSessionCost = 0
    /\ pc = "idle"

\* a second call on the same array at the same reference instant
AggregateUsageDataAgain ==
    /\ pc = "aggregateUsageData"
    /\ secondBundle' = aggregateUsageData(entries, now, tz)
    /\ entries' = EntriesAfterAggregate(entries)
    /\ pc' = "aggregateUsageDataAgain"
    /\ UNCHANGED <<now, tz, hoursLimit, skipTimeFilter, daily, hourly, bundle,
                   hourlyData, sessions, projects, filePath, fileLines, fileEntries,
                   currentSessionCost>>
    /\ UNCHANGED svcVars

NextAggregate == AggregateUsageData \/ AggregateUsageDataAgain

SpecAggregate == InitAggregate /\ [][NextAggregate]_vars

(***************************************************************************)
(* C4: the hourly series                                                   *)
(***************************************************************************)
HourlyDone == pc = "calculateHourlySummary"
BundleDone == pc = "aggregateUsageData"

\* the hour keys of a series are unique and strictly increasing, as instants and
\* as strings
StrictlyIncreasing(series) ==
    /\ \A i, j \in 1..Len(series) : i # j => series[i].hour # series[j].hour
    /\ \A i \in 1..(Len(series) - 1) :
        /\ DateParse(series[i].hour) < DateParse(series[i + 1].hour)
        /\ localeCompare(series[i].hour, series[i + 1].hour) < 0

\* the time-filtered series of an N-hour window has exactly N slots with unique,
\* strictly increasing hour keys
FilteredSeriesHasNSlots ==
    (HourlyDone /\ ~skipTimeFilter) =>
        /\ Len(hourly) = hoursLimit
        /\ StrictlyIncreasing(hourly)

\* C4 as stated: every hourly series produced for an N-hour window, the one of
\* calculateHourlySummary(events, N) without skipTimeFilter and the `hourly` series
\* of the bundle (N = 24), has exactly N slots with unique, strictly increasing
\* hour keys
C4_HourlySeriesHasNSlots ==
    /\ FilteredSeriesHasNSlots
    /\ BundleDone =>
        /\ Len(bundle.hourly) = 24
        /\ StrictlyIncreasing(bundle.hourly)

\* C4, amended: calculateHourlySummary(events, N) without skipTimeFilter has exactly
\* N slots; the `hourly` series of the bundle has 24 slots, or 25 when the events
\* that getCurrentHourEntries selects have a positive total cost, the 25th and last
\* being the slot of the hour that contains now; the hour keys of both series are
\* unique and strictly increasing
C4_HourlySeriesAmended ==
    /\ FilteredSeriesHasNSlots
    /\ BundleDone =>
        /\ Len(bundle.hourly) =
               IF SumCost(getCurrentHourEntries(entries, now, tz)) > 0 THEN 25 ELSE 24
        /\ Len(bundle.hourly) = 25 =>
               bundle.hourly[25].hour = toISOString(StartOfHour(now, tz))
        /\ StrictlyIncreasing(bundle.hourly)

\* the bundle's series got the slot of the current hour behind 24 slots of which
\* one holds events
C4_Witness ==
    /\ BundleDone
    /\ Len(bundle.hourly) = 25
    /\ bundle.hourly[25].cost > 0
    /\ \E i \in 1..24 : bundle.hourly[i].entryCount > 0

(***************************************************************************)
(* C11: calculateProjectSummary                                            *)
(***************************************************************************)
ProjectsDone == pc = "calculateProjectSummary"

\* the events of one project
EventsOf(p) == SelectSeq(entries, LAMBDA e : e.project = p)

RECURSIVE SumPercent(_, _)
\* the sum of the percentages of ps, as a numerator over the denominator d
SumPercent(ps, d) ==
    IF ps = <<>> THEN 0
    ELSE (Head(ps).percentage.num * d) \div Head(ps).percentage.den
             + SumPercent(Tail(ps), d)

\* C11: calculateProjectSummary returns one summary per distinct project id, sorted
\* by cost descending; percentage = project cost / grand total cost * 100, which is
\* 0 for every project when the grand total is 0 and adds up to 100 otherwise;
\* sessions = the number of distinct session ids among the project's events
C11_ProjectSummary ==
    ProjectsDone =>
        LET total == SumCost(entries) IN
        /\ {projects[i].project : i \in 1..Len(projects)}
               = {entries[i].project : i \in 1..Len(entries)}
        /\ \A i, j \in 1..Len(projects) :
               i # j => projects[i].project # projects[j].project
        /\ \A i \in 1..(Len(projects) - 1) : projects[i].cost >= projects[i + 1].cost
        /\ \A i \in 1..Len(projects) :
            LET mine == EventsOf(projects[i].project) IN
            /\ projects[i].cost = SumCost(mine)
            /\ projects[i].sessions
                   = Cardinality({mine[k].session : k \in 1..Len(mine)})
            /\ projects[i].percentage.set
            /\ projects[i].percentage.den # 0
            /\ IF total = 0 THEN projects[i].percentage.num = 0
               ELSE projects[i].percentage.num * total
                        = projects[i].cost * 100 * projects[i].percentage.den
        /\ (total # 0) => SumPercent(projects, total) = 100 * total

\* the scenario of C11: project A with costs 2.0 and 1.0 in two sessions, project B
\* with cost 1.0 in one session
C11_ScenarioInput ==
    /\ Len(entries) = 3
    /\ \E a, b, c \in 1..3 :
        /\ {a, b, c} = 1..3
        /\ entries[a].project = "project-a" /\ entries[a].costUSD = 20
        /\ entries[b].project = "project-a" /\ entries[b].costUSD = 10
        /\ entries[a].session # entries[b].session
        /\ entries[c].project = "project-b" /\ entries[c].costUSD = 10

\* C11, the example: A = 75% with 2 sessions and B = 25% with 1 session
C11_Scenario ==
    (ProjectsDone /\ C11_ScenarioInput) =>
        /\ Len(projects) = 2
        /\ projects[1].project = "project-a"
        /\ projects[1].cost = 30
        /\ IsValue(projects[1].percentage, 75)
        /\ projects[1].sessions = 2
        /\ projects[2].project = "project-b"
        /\ projects[2].cost = 10
        /\ IsValue(projects[2].percentage, 25)
        /\ projects[2].sessions = 1

\* C11 as one property: the rule and the example
C11_ProjectSummaryAndScenario == C11_ProjectSummary /\ C11_Scenario

\* the scenario has been summarised
C11_Witness == ProjectsDone /\ C11_ScenarioInput /\ Len(projects) = 2

(***************************************************************************)
(* C12: aggregateUsageData is deterministic and leaves its input alone     *)
(***************************************************************************)
AggregatedTwice == pc = "aggregateUsageDataAgain"

PendingUpdates ==
    {updateQueue[i] : i \in 1..Len(updateQueue)}
        \cup UNION {{batches[b].updates[k] : k \in 1..Len(batches[b].updates)} :
                       b \in 1..Len(batches)}

\* the notifications a step applies to the cache
NewlyApplied == {u \in PendingUpdates : u.timestamp \in applied' \ applied}

\* the notifications of a step that name path p, and the last of them to arrive
NewlyAppliedTo(p) == {u \in NewlyApplied : u.path = p}
LastAppliedTo(p) ==
    CHOOSE u \in NewlyAppliedTo(p) : \A v \in NewlyAppliedTo(p) : v.timestamp <= u.timestamp

\* what the file at p holds at processing time, as a cache entry; a file that is
\* gone or yields no event gives no entry
ParsedNow(p) ==
    IF fs[p] = Missing \/ ParseLines(p, fs[p].lines) = <<>> THEN NoEntry
    ELSE Entry(ParseLines(p, fs[p].lines))

\* C13: when processUpdateQueue applies notifications, the cache entry of every path
\* they name reflects them in arrival order: no entry if the last one is an unlink,
\* otherwise the events parsed from the file at processing time, or no entry if the
\* parse yields no event (or the read fails); the entries of the other paths are
\* unchanged; and the cache never maps a path to an empty event list
C13_BatchAppliedInOrder ==
    /\ [][\A p \in Paths :
            IF NewlyApplied = {} THEN TRUE
            ELSE IF NewlyAppliedTo(p) = {} THEN cache'[p] = cache[p]
            ELSE IF LastAppliedTo(p).type = "unlink" THEN cache'[p] = NoEntry
            ELSE cache'[p] \in {ParsedNow(p), NoEntry}]_vars
    /\ [](\A p \in Paths : cache[p].has => cache[p].entries # <<>>)

\* a batch of two notifications has been applied and broadcast: one path holds the
\* events of its file, the other, whose file is gone or empty, has no entry
C13_Witness ==
    /\ applied = {1, 2}
    /\ broadcasted = {1, 2}
    /\ batches = <<>>
    /\ \E p, q \in Paths :
        /\ cache[p] = ParsedNow(p) /\ cache[p].has
        /\ cache[q] = ParsedNow(q) /\ ~cache[q].has

\* processUpdateQueue is called in this step
TimerFires == lastCall'.n # lastCall.n

\* the ids of the notifications in the queue
QueuedIds == {updateQueue[i].timestamp : i \in 1..Len(updateQueue)}

\* a batch reaches its broadcast and its `finally` in this step: the batch that was
\* awaiting a read, or one that ran to its end when the timer fired
BatchEnds == ~isProcessing' /\ (isProcessing \/ (TimerFires /\ lastCall'.started))
\* the ids of the notifications of that batch
EndingIds == IF isProcessing THEN batches[1].ids ELSE QueuedIds

\* C14: each queueFileUpdate restarts the 500 ms timer, so that no batch starts
\* while a notification is less than 500 ms old; when the timer fires with no batch
\* in flight, every notification queued so far is taken into one batch, which ends
\* with a single broadcast of the cache that covers all of them (unless the
\* broadcast itself throws)
C14_Debounced ==
    /\ [][notified' # notified => (updateTimer' = "pending" /\ elapsed' = 0)]_vars
    /\ [][TimerFires => (updateTimer = "pending" /\ elapsed >= DebounceMs)]_vars
    /\ [][(TimerFires /\ ~isProcessing /\ updateQueue # <<>>) =>
            /\ updateQueue' = <<>>
            /\ taken' = taken \cup QueuedIds
            /\ Len(batches') <= 1
            /\ \A b \in 1..Len(batches') : batches'[b].ids = QueuedIds]_vars
    /\ [][BatchEnds =>
            /\ EndingIds \subseteq applied'
            /\ lastBroadcast'.threw
                \/ /\ broadcasted' = broadcasted \cup EndingIds
                   /\ lastBroadcast' = [sent |-> TRUE, data |-> cache', threw |-> FALSE]]_vars

\* two notifications were taken together by the one firing of the timer and went
\* through one batch and one broadcast
C14_Witness ==
    /\ lastCall = [n |-> 1, started |-> TRUE]
    /\ taken = {1, 2}
    /\ broadcasted = {1, 2}
    /\ lastBroadcast.data = cache

\* the awaited read of the batch in flight settles in this step
BatchReads == isProcessing /\ batches # <<>> /\ batches' # batches

\* the bulk load reads file f in this step
LoadReads(f) ==
    \E i \in 1..Len(loads) :
        /\ loads[i].phase = "parse"
        /\ f \in loads[i].pending
        /\ \/ loads' = [loads EXCEPT ![i].pending = @ \ {f}]
           \/ loads[i].pending = {f} /\ loads' = RemoveAt(loads, i)

\* the bulk load that reads its last file in this step returns to this caller
LoadReturnsTo(caller) ==
    \E i \in 1..Len(loads) :
        /\ loads[i].phase = "parse"
        /\ loads[i].caller = caller
        /\ loads' = RemoveAt(loads, i)

\* C15: a file whose read fails contributes no event: the bulk load stores nothing
\* for it, an update batch removes its cache entry; the other files are untouched by
\* the failure and the load or batch goes on with them; no exception reaches the
\* caller (initialize goes on to start the watcher, refreshData to its broadcast),
\* and the batch still ends with its broadcast
C15_ReadFailureIsLocal ==
    /\ [][\A f \in Paths : LoadReads(f) =>
            /\ \A q \in Paths \ {f} : cache'[q] = cache[q]
            /\ cache'[f] \in {cache[f], ParsedNow(f)}
            /\ fs[f] = Missing => cache'[f] = cache[f]
            /\ loads' # loads]_vars
    /\ [][(loads' # loads /\ LoadReturnsTo("initialize")) => watching']_vars
    /\ [][(loads' # loads /\ LoadReturnsTo("refresh")) =>
            lastBroadcast' = [sent |-> TRUE, data |-> cache', threw |-> FALSE]]_vars
    /\ [][BatchReads =>
            LET u == Head(batches[1].updates) IN
            /\ u.timestamp \in applied'
            /\ fs[u.path] = Missing => cache'[u.path] = NoEntry
            /\ \/ /\ batches' # <<>>
                  /\ isProcessing'
                  /\ batches'[1].ids = batches[1].ids
                  /\ \E k \in 2..Len(batches[1].updates) :
                        /\ batches'[1].updates
                               = SubSeq(batches[1].updates, k, Len(batches[1].updates))
                        /\ batches[1].updates[k].type # "unlink"
               \/ /\ batches' = <<>>
                  /\ ~isProcessing'
                  /\ batches[1].ids \subseteq applied'
                  /\ lastBroadcast'.threw
                        \/ lastBroadcast' = [sent |-> TRUE, data |-> cache', threw |-> FALSE]]_vars

\* a batch is awaiting the read of a file that was created and has been deleted
\* since: the read fails, with another notification behind it in the batch
C15_Witness ==
    /\ isProcessing
    /\ Len(batches) = 1
    /\ Len(batches[1].updates) = 2
    /\ batches[1].updates[1].type = "add"
    /\ fs[batches[1].updates[1].path] = Missing

(***************************************************************************)
(* parseJsonlFile (data-loader.ts)                                         *)
(***************************************************************************)
MaxLines == 3           \* longest file handed to parseJsonlFile, in lines

\* a path segment is a string of pieces, so that the ".jsonl" inside a file name
\* can be told from the rest of the name; a path is the list of its segments
\* (`filePath.split(path.sep)`)
Marker == <<"projects">>
DotJsonl == ".jsonl"

\* String.prototype.replace(piece, ""): the first occurrence is taken out
ReplaceFirst(name, piece) ==
    LET at == {i \in 1..Len(name) : name[i] = piece}
        first == CHOOSE i \in at : \A j \in at : i <= j
    IN IF at = {} THEN name
       ELSE [k \in 1..(Len(name) - 1) |-> IF k < first THEN name[k] ELSE name[k + 1]]

\* data-loader.ts:453: pathParts.findIndex, counted from 1, 0 when there is none
projectsIndex(pathParts) ==
    LET at == {i \in 1..Len(pathParts) : pathParts[i] = Marker}
    IN IF at = {} THEN 0 ELSE CHOOSE i \in at : \A j \in at : i <= j

\* data-loader.ts:455: the path has no marker, or fewer than two segments behind it
InvalidPath(pathParts) ==
    projectsIndex(pathParts) = 0 \/ projectsIndex(pathParts) >= Len(pathParts) - 1

\* data-loader.ts:446-494, once the file has been read
parseJsonlFile(pathParts, lines) ==
    IF InvalidPath(pathParts) THEN <<>>
    ELSE LET project == pathParts[projectsIndex(pathParts) + 1]
             fileName == pathParts[Len(pathParts)]
             session == ReplaceFirst(fileName, DotJsonl)
             parsedLines == ParseLines(pathParts, lines)
         IN [i \in 1..Len(parsedLines) |->
                [timestamp |-> parsedLines[i].timestamp,
                 costUSD |-> parsedLines[i].costUSD,
                 project |-> project,
                 session |-> session,
                 filePath |-> pathParts]]

\* the lines of a file: blank, not JSON, records that lack a field or have a cost
\* that is text, and valid records, one of which carries its own project and
\* session
BlankLine == [MalformedLine EXCEPT !.blank = TRUE]
NoTimestampLine == Line(TRUE, "", TRUE, "number", 5)
NoUsageLine == Line(TRUE, "t", FALSE, "number", 5)
TextCostLine == Line(TRUE, "t", TRUE, "string", 0)
TaggedLine ==
    [Line(TRUE, "u", TRUE, "number", 10) EXCEPT !.project = "other", !.session = "other"]
LineKinds ==
    {BlankLine, MalformedLine, NoTimestampLine, NoUsageLine, TextCostLine, GoodLine,
     TaggedLine}

\* the paths: a session file of project "a" under a home directory, one below a
\* sub-directory, one whose name holds ".jsonl" twice, one right under the marker,
\* one outside any "projects" directory, and a project that is itself named
\* "projects"
SessionFile == <<"s1", DotJsonl>>
ParsePaths ==
    {<<<<"home">>, Marker, <<"a">>, SessionFile>>,
     <<Marker, <<"a">>, <<"sub">>, SessionFile>>,
     <<Marker, <<"a">>, <<"s1", DotJsonl, ".bak", DotJsonl>>>>,
     <<<<"home">>, Marker, SessionFile>>,
     <<<<"home">>, <<"a">>, SessionFile>>,
     <<Marker, Marker, SessionFile>>}

InitParse ==
    /\ SvcIdle
    /\ entries = <<>>
    /\ now = 0
    /\ tz = 0
    /\ hoursLimit = 0
    /\ skipTimeFilter = FALSE
    /\ daily = <<>>
    /\ hourly = <<>>
    /\ bundle = NoBundle
    /\ hourlyData = <<>>
    /\ sessions = <<>>
    /\ secondBundle = NoBundle
    /\ projects = <<>>
    /\ filePath \in ParsePaths
    /\ fileLines \in SeqsUpTo(LineKinds, MaxLines)
    /\ fileEntries = <<>>
    /\ currentSessionCost = 0
    /\ pc = "idle"

\* data-loader.ts:446-494: the read fails and the promise is rejected, or the
\* lines are parsed
ParseJsonlFile ==
    /\ pc = "idle"
    /\ \E readFails \in BOOLEAN :
        IF readFails
        THEN /\ pc' = "parseJsonlFile rejected"
             /\ UNCHANGED fileEntries
        ELSE /\ pc' = "parseJsonlFile"
             /\ fileEntries' = parseJsonlFile(filePath, fileLines)
    /\ UNCHANGED <<entries, now, tz, hoursLimit, skipTimeFilter, daily, hourly, bundle,
                   hourlyData, sessions, secondBundle, projects, filePath, fileLines,
                   currentSessionCost>>
    /\ UNCHANGED svcVars

NextParse == ParseJsonlFile

SpecParse == InitParse /\ [][NextParse]_vars

(***************************************************************************)
(* C16, C17: parseJsonlFile                                                *)
(***************************************************************************)
FileParsed == pc = "parseJsonlFile"

\* a line that is a well-formed JSON record with a non-empty timestamp, a
\* message.usage structure and a numeric costUSD
WellFormed(l) ==
    /\ ~l.blank
    /\ l.json
    /\ l.timestamp # ""
    /\ l.usage
    /\ l.costType = "number"

\* the well-formed lines of the file, in file order
WellFormedLines == SelectSeq(fileLines, WellFormed)

\* the path has a "projects" segment with at least two segments behind it
HasProjectAndFile ==
    \E i \in 1..Len(filePath) :
        /\ filePath[i] = Marker
        /\ \A j \in 1..(i - 1) : filePath[j] # Marker
        /\ Len(filePath) - i >= 2

\* C16: parseJsonlFile returns, in file order, exactly the lines that are
\* well-formed records with a non-empty timestamp, a message.usage structure and a
\* numeric costUSD; every other line is dropped without affecting the others
C16_ExactlyTheValidLines ==
    (FileParsed /\ HasProjectAndFile) =>
        /\ Len(fileEntries) = Len(WellFormedLines)
        /\ \A i \in 1..Len(fileEntries) :
            /\ fileEntries[i].timestamp = WellFormedLines[i].timestamp
            /\ fileEntries[i].costUSD = WellFormedLines[i].costUSD

\* a valid line, a line that is not JSON and another valid line gave two entries
C16_Witness ==
    /\ FileParsed
    /\ HasProjectAndFile
    /\ fileLines = <<GoodLine, MalformedLine, TaggedLine>>
    /\ Len(fileEntries) = 2

\* the segment right behind the first "projects" segment of the path
SegmentAfterMarker ==
    filePath[1 + CHOOSE i \in 1..Len(filePath) :
                     /\ filePath[i] = Marker
                     /\ \A j \in 1..(i - 1) : filePath[j] # Marker]

\* a file name without its .jsonl extension
BaseNameWithoutExtension(name) ==
    IF name # <<>> /\ name[Len(name)] = DotJsonl THEN SubSeq(name, 1, Len(name) - 1)
    ELSE name

\* C17: for a path with a "projects" segment followed by a project segment and a file
\* name, every event of parseJsonlFile carries project = the segment right behind
\* the marker and session = the file's base name without its .jsonl extension,
\* whatever project and session the line itself holds; for any other path the file
\* yields no event
C17_ProjectAndSessionFromPath ==
    FileParsed =>
        IF HasProjectAndFile
        THEN \A i \in 1..Len(fileEntries) :
                /\ fileEntries[i].project = SegmentAfterMarker
                /\ fileEntries[i].session
                       = BaseNameWithoutExtension(filePath[Len(filePath)])
        ELSE fileEntries = <<>>

(***************************************************************************)
(* C18, C19: "today" in the bundle of aggregateUsageData                   *)
(***************************************************************************)
\* the system's current calendar date, as the local and as the UTC date
SystemDates == {formatDate(now, tz), formatDate(now, 0)}

NoEventOnSystemDate ==
    \A i \in 1..Len(entries) :
        /\ formatDate(entries[i].timestamp, tz) \notin SystemDates
        /\ formatDate(entries[i].timestamp, 0) \notin SystemDates

\* the events of the latest local date present in the list
MostRecentDateEvents ==
    SelectSeq(entries,
              LAMBDA e : \A i \in 1..Len(entries) :
                  localeCompare(formatDate(entries[i].timestamp, tz),
                                formatDate(e.timestamp, tz)) <= 0)

SeriesCost(series) == SumSeq([i \in 1..Len(series) |-> series[i].cost], Len(series))

\* C18: when the event list is non-empty and no event falls on the system's current
\* calendar date, the todayHourly series carries the events of the most recent date
\* of the data: its total cost is the total cost of that date's events.
C18_TodayHourlyCarriesMostRecentDate ==
    (BundleDone /\ entries # <<>> /\ NoEventOnSystemDate)
        => SeriesCost(bundle.todayHourly) = SumCost(MostRecentDateEvents)

EventsOnLocalToday ==
    SelectSeq(entries, LAMBDA e : formatDate(e.timestamp, tz) = formatDate(now, tz))

\* C19: the today field is the daily summary of the system's current local calendar
\* date when an event falls on that date and null when none does; for an empty list
\* daily, sessions and projects are empty and the week and month totals are 0.
C19_TodayIsLocalDateSummary ==
    BundleDone =>
        /\ IF EventsOnLocalToday # <<>>
           THEN /\ bundle.today # NullSummary
                /\ bundle.today.date = formatDate(now, tz)
                /\ \E i \in 1..Len(bundle.daily) : bundle.daily[i] = bundle.today
           ELSE bundle.today = NullSummary
        /\ entries = <<>> =>
               /\ bundle.daily = <<>>
               /\ bundle.sessions = <<>>
               /\ bundle.projects = <<>>
               /\ bundle.thisWeek.totalCost = 0
               /\ bundle.thisMonth.totalCost = 0

(***************************************************************************)
(* C20: the order of the sessions                                          *)
(***************************************************************************)
\* C20: identifySessions returns its sessions newest-first: every member hour of a
\* session is later than every member hour of the session that follows it in the
\* result, and the member hours inside each session are in ascending order.
C20_SessionsNewestFirst ==
    SessionsDone =>
        /\ \A k \in 1..(Len(sessions) - 1) :
              \A a \in 1..Len(sessions[k].hours), b \in 1..Len(sessions[k + 1].hours) :
                  DateParse(sessions[k].hours[a].hour)
                      > DateParse(sessions[k + 1].hours[b].hour)
        /\ \A k \in 1..Len(sessions) :
              \A j \in 1..(Len(sessions[k].hours) - 1) :
                  DateParse(sessions[k].hours[j].hour)
                      < DateParse(sessions[k].hours[j + 1].hour)

\* two sessions came out, the newer one of more than one hour
C20_Witness ==
    /\ SessionsDone
    /\ Len(sessions) = 2
    /\ Len(sessions[1].hours) >= 2
    /\ Len(sessions[2].hours) = 5

(***************************************************************************)
(* C21: the ongoing session                                                *)
(***************************************************************************)
HoldsLastHour(s) ==
    \E j \in 1..Len(s.hours) : s.hours[j] = hourlyData[Len(hourlyData)]

\* the scan has left a session open at the end of the series
LeftOpen == SessionScan(hourlyData, Len(hourlyData)).cur.open

\* C21: at most one session is ongoing; a session is ongoing exactly when it is the
\* session left open at the end of input, it holds the very last hour of the series
\* and it has fewer than 5 member hours; a session closed by the cap is never ongoing.
C21_OngoingSession ==
    SessionsDone =>
        /\ Cardinality({k \in 1..Len(sessions) : sessions[k].isOngoing}) <= 1
        /\ \A k \in 1..Len(sessions) :
              /\ sessions[k].isOngoing <=>
                     /\ LeftOpen /\ k = 1
                     /\ HoldsLastHour(sessions[k])
                     /\ Len(sessions[k].hours) < 5
              /\ Len(sessions[k].hours) = 5 => ~sessions[k].isOngoing
              /\ (k > 1 \/ ~LeftOpen) => ~sessions[k].isOngoing

\* an ongoing session after a session that the cap closed
C21_Witness ==
    /\ SessionsDone
    /\ Len(sessions) = 2
    /\ sessions[1].isOngoing
    /\ Len(sessions[2].hours) = 5
    /\ ~sessions[2].isOngoing

(***************************************************************************)
(* calculateCurrentSessionCost (session-calculator.ts)                     *)
(***************************************************************************)
\* data-loader.ts:805-841, called with a referenceDate: no year workaround
getCurrentHourEntriesAt(es, referenceDate, zone) ==
    LET currentHourStart == StartOfHour(referenceDate, zone)
        currentHourEnd == currentHourStart + MinutesPerHour
    IN SelectSeq(es, LAMBDA e : /\ e.timestamp >= currentHourStart
                                /\ e.timestamp < currentHourEnd)

\* session-calculator.ts:24-30: the index of the most recent slot with cost (slots
\* are counted from 1, so 0 stands for the code's -1)
lastActiveIndex(data) ==
    LET active == {i \in 1..Len(data) : data[i].cost > 0}
    IN IF active = {} THEN 0 ELSE CHOOSE i \in active : \A j \in active : j <= i

\* session-calculator.ts:37-42: the last activity is 5 hours old or older
SessionExpired(data, last, t) == t - DateParse(data[last].hour) >= 5 * MinutesPerHour

\* session-calculator.ts:52: the walk goes at most 4 slots back
WithinWalk_Five(i, last) == i >= 1 /\ i >= last - 5
WithinWalk(i, last) == i >= 1 /\ i >= last - 4

\* session-calculator.ts:57-81
includeInSession(data, i, last) ==
    \/ data[i].cost > 0
    \/ /\ \E j \in (i + 1)..Min(last, i + 2) : data[j].cost > 0
       /\ \E j \in (IF i - 2 < 1 THEN 1 ELSE i - 2)..(i - 1) : data[j].cost > 0

RECURSIVE WalkBack(_, _, _)
\* session-calculator.ts:52-90: the cost the backward walk adds from slot i on
WalkBack(data, i, last) ==
    IF WithinWalk(i, last) /\ includeInSession(data, i, last)
    THEN data[i].cost + WalkBack(data, i - 1, last)
    ELSE 0

\* session-calculator.ts:4-109
calculateCurrentSessionCost(todayHourlyData, currentTime, allEntries, zone) ==
    LET currentHourEntries == getCurrentHourEntriesAt(allEntries, currentTime, zone)
        last == lastActiveIndex(todayHourlyData)
    IN IF todayHourlyData = <<>> THEN SumCost(currentHourEntries)
       ELSE IF last = 0 THEN 0
       ELSE IF SessionExpired(todayHourlyData, last, currentTime) THEN 0
       ELSE todayHourlyData[last].cost + WalkBack(todayHourlyData, last - 1, last)
                + SumCost(currentHourEntries)

\* the costs of the slots of the series handed to the calculator
SlotCosts == {0, 1, MaxCost}

\* the instant the series starts at: 07:00 of the first day
TrayStart == 7 * MinutesPerHour

\* minutes from the start of the last slot of the series to `now`: on the hour
\* boundary, inside the last hour, and in the hour after it
NowOffsets == {0, 30, 70}

\* the live entries: events of cost 0.1 at minutes 10 and 20 of the hour of t and at
\* minute 50 of the hour before
LiveEvent(t, minute) ==
    [timestamp |-> StartOfHour(t, 0) + minute, costUSD |-> 1,
     project |-> "project-a", session |-> "session-1"]
LiveEntries(t) ==
    {<<>>, <<LiveEvent(t, 10)>>, <<LiveEvent(t, 10), LiveEvent(t, 20)>>,
     <<LiveEvent(t, -10)>>}

\* a dense ascending series, a clock at or after its last slot, and live entries
InitTray ==
    /\ SvcIdle
    /\ tz = 0
    /\ hoursLimit = 0
    /\ skipTimeFilter = FALSE
    /\ daily = <<>>
    /\ hourly = <<>>
    /\ bundle = NoBundle
    /\ \E costs \in SeqsUpTo(SlotCosts, MaxHours) :
           /\ hourlyData = Series(TrayStart, costs, 0)
           /\ \E offset \in NowOffsets :
                  now = TrayStart + (IF costs = <<>> THEN 0 ELSE Len(costs) - 1)
                                        * MinutesPerHour + offset
    /\ entries \in LiveEntries(now)
    /\ sessions = <<>>
    /\ secondBundle = NoBundle
    /\ projects = <<>>
    /\ filePath = <<>>
    /\ fileLines = <<>>
    /\ fileEntries = <<>>
    /\ currentSessionCost = 0
    /\ pc = "idle"

\* app-controller.ts:625-629: the tray computes the current session cost
CalculateCurrentSessionCost ==
    /\ pc = "idle"
    /\ currentSessionCost' = calculateCurrentSessionCost(hourlyData, now, entries, tz)
    /\ pc' = "calculateCurrentSessionCost"
    /\ UNCHANGED <<entries, now, tz, hoursLimit, skipTimeFilter, daily, hourly, bundle,
                   hourlyData, sessions, secondBundle, projects, filePath, fileLines,
                   fileEntries>>
    /\ UNCHANGED svcVars

\* ExpandedView.tsx:133-134: the window lays out the sessions of the same series
RenderSessions ==
    /\ pc = "calculateCurrentSessionCost"
    /\ sessions' = identifySessions(hourlyData)
    /\ pc' = "rendered"
    /\ UNCHANGED <<entries, now, tz, hoursLimit, skipTimeFilter, daily, hourly, bundle,
                   hourlyData, secondBundle, projects, filePath, fileLines, fileEntries,
                   currentSessionCost>>
    /\ UNCHANGED svcVars

NextTray == CalculateCurrentSessionCost \/ RenderSessions

SpecTray == InitTray /\ [][NextTray]_vars

(***************************************************************************)
(* C22, C23: the running cost of the current session                       *)
(***************************************************************************)
SessionCostDone == pc \in {"calculateCurrentSessionCost", "rendered"}

\* the live events of the hour that contains `now`
CurrentHourEvents ==
    SelectSeq(entries, LAMBDA e : /\ e.timestamp >= StartOfHour(now, tz)
                                  /\ e.timestamp < StartOfHour(now, tz) + MinutesPerHour)

\* the slots of the series keyed by the hour that contains `now`
CurrentHourSlots ==
    {i \in 1..Len(hourlyData) : DateParse(hourlyData[i].hour) = StartOfHour(now, tz)}

\* the cost the series alone gives, without live entries
SeriesSessionCost == calculateCurrentSessionCost(hourlyData, now, <<>>, tz)

NoActiveHour == \A i \in 1..Len(hourlyData) : hourlyData[i].cost = 0

\* the current hour's events are already folded into the series: its slot for the
\* current hour carries their cost
C22_AlreadyFolded ==
    /\ SumCost(CurrentHourEvents) > 0
    /\ \E i \in CurrentHourSlots : hourlyData[i].cost = SumCost(CurrentHourEvents)

\* C22: calculateCurrentSessionCost counts the cost of each event of the current hour
\* exactly once while the running session is not expired: not a second time when the
\* series already holds the current hour's slot, and not zero times when the series
\* has no hour with cost but live entries exist in the current hour.
C22_CurrentHourCountedOnce ==
    SessionCostDone =>
        /\ C22_AlreadyFolded => currentSessionCost = SeriesSessionCost
        /\ (NoActiveHour /\ CurrentHourEvents # <<>>)
               => currentSessionCost = SumCost(CurrentHourEvents)
        /\ (CurrentHourSlots = {} /\ ~NoActiveHour
                /\ ~SessionExpired(hourlyData, lastActiveIndex(hourlyData), now))
               => currentSessionCost = SeriesSessionCost + SumCost(CurrentHourEvents)

\* the most recent slot with nonzero cost, 0 when there is none
MostRecentActive ==
    IF NoActiveHour THEN 0
    ELSE CHOOSE i \in 1..Len(hourlyData) :
             /\ hourlyData[i].cost > 0
             /\ \A j \in (i + 1)..Len(hourlyData) : hourlyData[j].cost = 0

ActiveWithin(lo, hi) ==
    \E j \in lo..hi : j \in 1..Len(hourlyData) /\ hourlyData[j].cost > 0

\* slot i has cost, or has no cost and an active slot within 2 positions after it
\* and within 2 positions before it
KeepsSession(i) ==
    \/ hourlyData[i].cost > 0
    \/ ActiveWithin(i + 1, i + 2) /\ ActiveWithin(i - 2, i - 1)

\* the slots that contribute: the most recent active one and, of the 4 before it,
\* those reached by the backward walk before its first stop
Contributing ==
    {i \in 1..MostRecentActive :
        /\ i >= MostRecentActive - 4
        /\ \A k \in i..(MostRecentActive - 1) : KeepsSession(k)}

HoursOfTodaySoFar == TimeOfDay(now, tz) \div MinutesPerHour + 1

\* C24: with skipTimeFilter = true calculateHourlySummary returns one slot per hour
\* from local midnight through and including the hour that contains now, consecutive
\* and without gaps, and never more than 24 slots, for every now.
C24_TodaySeriesThroughCurrentHour ==
    (HourlyDone /\ skipTimeFilter) =>
        /\ Len(hourly) = HoursOfTodaySoFar
        /\ Len(hourly) <= 24
        /\ \A i \in 1..Len(hourly) :
              hourly[i].hour
                  = toISOString(StartOfDay(now, tz) + (i - 1) * MinutesPerHour)

(***************************************************************************)
(* C25: the current-hour patch of the bundle's hourly series               *)
(***************************************************************************)
\* the events of the hour that contains now
EventsOfCurrentHour ==
    SelectSeq(entries, LAMBDA e : StartOfHour(e.timestamp, tz) = StartOfHour(now, tz))

CurrentHourSlotsOf(series) ==
    {i \in 1..Len(series) : series[i].hour = toISOString(StartOfHour(now, tz))}

\* C25: after aggregateUsageData, if events with positive total cost exist in the hour
\* that contains now, the bundle's hourly series has exactly one slot keyed by that
\* hour, its cost and entryCount the totals of exactly those events; patched or not,
\* the series is ascending with consecutive hour keys exactly one hour apart.
C25_CurrentHourPatch ==
    BundleDone =>
        /\ SumCost(EventsOfCurrentHour) > 0 =>
               /\ Cardinality(CurrentHourSlotsOf(bundle.hourly)) = 1
               /\ \A i \in CurrentHourSlotsOf(bundle.hourly) :
                      /\ bundle.hourly[i].cost = SumCost(EventsOfCurrentHour)
                      /\ bundle.hourly[i].entryCount = Len(EventsOfCurrentHour)
        /\ \A i \in 1..(Len(bundle.hourly) - 1) :
               DateParse(bundle.hourly[i + 1].hour)
                   = DateParse(bundle.hourly[i].hour) + MinutesPerHour

\* the patch has appended the current hour's slot, which holds a zero-cost event too
C25_Witness ==
    /\ BundleDone
    /\ Len(EventsOfCurrentHour) >= 2
    /\ \E i \in 1..Len(EventsOfCurrentHour) : EventsOfCurrentHour[i].costUSD = 0
    /\ Len(bundle.hourly) = 25
    /\ bundle.hourly[25].cost = SumCost(EventsOfCurrentHour)
    /\ bundle.hourly[25].cost > 0

(***************************************************************************)
(* C26: the rollups of the week and of the month                           *)
(***************************************************************************)
\* the day a "YYYY-MM-DD" date names, counted like the local days of the instants
DayOfDate(date) == DateOnlyParse(date) \div MinutesPerDay

InCurrentWeek(date) ==
    DayOfDate(date) - WeekdayOf(DayOfDate(date))
        = LocalDay(now, tz) - WeekdayOf(LocalDay(now, tz))

InCurrentMonth(date) ==
    /\ YearOf(DayOfDate(date)) = YearOf(LocalDay(now, tz))
    /\ MonthOf(DayOfDate(date)) = MonthOf(LocalDay(now, tz))

CostOfDaysInWeek ==
    SumSeq([i \in 1..Len(bundle.daily) |->
               IF InCurrentWeek(bundle.daily[i].date) THEN bundle.daily[i].cost ELSE 0],
           Len(bundle.daily))

CostOfDaysInMonth ==
    SumSeq([i \in 1..Len(bundle.daily) |->
               IF InCurrentMonth(bundle.daily[i].date) THEN bundle.daily[i].cost ELSE 0],
           Len(bundle.daily))

\* C26: thisWeek.totalCost is the sum of the costs of exactly the daily summaries
\* whose local date lies in the current calendar week starting on Sunday, and
\* thisMonth.totalCost the sum for exactly those of the current calendar month, the
\* first day of the week and of the month included, in every time zone.
C26_WeekAndMonthRollups ==
    BundleDone =>
        /\ bundle.thisWeek.totalCost = CostOfDaysInWeek
        /\ bundle.thisMonth.totalCost = CostOfDaysInMonth

(***************************************************************************)
(* C27: quiet hours inside a session                                       *)
(***************************************************************************)
\* C27: zero-cost hours occur in a session only as interior bridges: the first and
\* the last member hour of every session have nonzero cost, so endHour is an hour
\* with activity and no session ends with trailing quiet hours.
C27_QuietHoursOnlyInside ==
    SessionsDone =>
        \A k \in 1..Len(sessions) :
            /\ sessions[k].hours[1].cost > 0
            /\ sessions[k].hours[Len(sessions[k].hours)].cost > 0
            /\ sessions[k].endHour = sessions[k].hours[Len(sessions[k].hours)].hourLabel

(***************************************************************************)
(* C28: the cache converges to the file system                             *)
(***************************************************************************)
\* the DataService over a file system whose reads of existing files succeed
ReliableLoadParseDone ==
    \E i \in 1..Len(loads), f \in Paths :
        LoadParseDone(i, f, FALSE) /\ UNCHANGED pureVars
ReliableParseDone ==
    \E i \in 1..Len(batches), th \in BOOLEAN :
        ParseDone(i, FALSE, th) /\ UNCHANGED pureVars

NextReliable ==
    \/ SvcInitialize
    \/ SvcRefreshData
    \/ SvcGlobDone
    \/ ReliableLoadParseDone
    \/ SvcFileChange
    \/ SvcTick
    \/ SvcProcessUpdateQueue
    \/ ReliableParseDone

SpecReliable == Init /\ [][NextReliable]_vars

\* initialize() has returned, no load and no batch is in flight and no timer is
\* armed: nothing more happens until a file changes or the user refreshes
Quiescent ==
    /\ watching
    /\ loads = <<>>
    /\ batches = <<>>
    /\ ~isProcessing
    /\ updateTimer # "pending"

\* what the cache holds for a file when it matches the file's current content
CacheOfContent(p) ==
    IF fs[p] = Missing \/ ParseLines(p, fs[p].lines) = <<>> THEN NoEntry
    ELSE Entry(ParseLines(p, fs[p].lines))

\* C28: once file changes have stopped and every load and batch in flight has
\* finished, the cache holds for each log file exactly the events of its current
\* content and no entry for a deleted file, also for files created, changed or
\* deleted during the bulk load of initialize() or during refreshData(), and when
\* refreshData() interleaves with a batch.
C28_CacheConverges ==
    Quiescent => \A p \in Paths : cache[p] = CacheOfContent(p)

(***************************************************************************)
(* C29: the sessions partition the activity of the series                  *)
(***************************************************************************)
SessionsHolding(i) == {k \in 1..Len(sessions) : i \in MemberIndices(sessions[k])}

MemberCost(s) == SumSeq([j \in 1..Len(s.hours) |-> s.hours[j].cost], Len(s.hours))

\* C29: every hour with nonzero cost is a member of exactly one session; the sessions
\* are pairwise disjoint runs of consecutive slots, each starting at an hour with
\* nonzero cost; each totalCost is the sum of the members' costs, so the totalCost
\* values of all sessions add up to the total cost of the series.
C29_SessionsPartitionActivity ==
    SessionsDone =>
        /\ \A i \in 1..Len(hourlyData) :
              hourlyData[i].cost > 0 => Cardinality(SessionsHolding(i)) = 1
        /\ \A k, l \in 1..Len(sessions) :
              k # l => MemberIndices(sessions[k]) \cap MemberIndices(sessions[l]) = {}
        /\ \A k \in 1..Len(sessions) :
              /\ IsConsecutiveRun(sessions[k])
              /\ Cardinality(MemberIndices(sessions[k])) = Len(sessions[k].hours)
              /\ sessions[k].hours[1].cost > 0
              /\ sessions[k].totalCost = MemberCost(sessions[k])
        /\ SumSeq([k \in 1..Len(sessions) |-> sessions[k].totalCost], Len(sessions))
               = SeriesCost(hourlyData)

\* two sessions with a quiet slot of neither between them, the older one closed by
\* the cap with a bridged quiet hour inside, the newer one flushed at the end
C29_Witness ==
    /\ SessionsDone
    /\ Len(hourlyData) = 7
    /\ Len(sessions) = 2
    /\ Len(sessions[2].hours) = 5
    /\ \E j \in 1..5 : sessions[2].hours[j].cost = 0
    /\ SessionsHolding(6) = {}
    /\ SessionsHolding(7) = {1}
    /\ sessions[1].totalCost + sessions[2].totalCost = SeriesCost(hourlyData)
    /\ sessions[2].totalCost > sessions[1].totalCost

(***************************************************************************)
(* C30: the tray and the window on the current session                     *)
(***************************************************************************)
TrayAndWindowDone == pc = "rendered"

\* now lies inside the last hour of the series
NowInLastHour ==
    /\ hourlyData # <<>>
    /\ StartOfHour(now, tz) = DateParse(hourlyData[Len(hourlyData)].hour)

OngoingSessions == {k \in 1..Len(sessions) : sessions[k].isOngoing}

\* C30: for a dense ascending series with now inside its last hour and no live
\* entries, calculateCurrentSessionCost equals the totalCost of the session that
\* identifySessions marks isOngoing on the same series, and 0 when it marks none.
C30_TrayAgreesWithWindow ==
    (TrayAndWindowDone /\ NowInLastHour /\ entries = <<>>) =>
        /\ \A k \in OngoingSessions : currentSessionCost = sessions[k].totalCost
        /\ OngoingSessions = {} => currentSessionCost = 0

====
